---- MODULE Spec2Model ----
(***************************************************************************)
(* Verification model of the instaroom backend.                            *)
(*                                                                         *)
(*   Spec        Stage 4, generate_dual_room_images: one chat session, the  *)
(*               forward and the backward critique-retry loop.             *)
(*   SpecLayout  Stage 3, design_prompt: the repair of the layout planner's *)
(*               forward/backward object lists in both modes.              *)
(*   SpecAggregate, SpecScore   Stage 2, aggregate_analyses and            *)
(*               _score_objects.                                           *)
(*   SpecRefs, SpecView   Stage 3, reference images and placements of one  *)
(*               viewpoint.                                                *)
(*   SpecScene   Stage 5, run_pipeline from the end of Stage 4 and          *)
(*               convert_to_3d_scene (FairSpecScene: every request is      *)
(*               answered).                                                *)
(*   SpecPrompt  generate_3d_prompt over the outcomes of its model call.   *)
(*   SpecAnalyze Stage 1, analyze_posts and the gate of run_pipeline       *)
(*               (FairSpecAnalyze: every task is answered).                *)
(*   SpecCalls   the model calls of aggregate_analyses and design_prompt.   *)
(*   SpecAtmosphere   _derive_atmosphere_deterministic over lists of       *)
(*               scenes.                                                   *)
(*   SpecImages  Stage 4 together with the rest of run_pipeline: the       *)
(*               final images and the request of Stage 5.                  *)
(*                                                                         *)
(* An await of the code is a step boundary; the awaits of one per-post     *)
(* analysis are answered in one step.  Answers of the external services    *)
(* are drawn with \E.                                                      *)
(***************************************************************************)
EXTENDS Integers, Sequences, FiniteSets, TLC

VARIABLES
    has_backward_prompt, \* backward_prompt is not None (dual-view mode)
    pc,                  \* position of generate_dual_room_images
    error,               \* exception that left generate_dual_room_images, "" if none
    ref_images,          \* view -> number of downloaded reference images
    chat,                \* number of chat sessions created so far
    turns,               \* messages sent with chat.send_message, in order
    critique_calls,      \* critique calls issued, in order
    vpc,                 \* view -> position of its _generate_single_view call
    vchat,               \* view -> chat session handed to the call
    attempt_num,         \* view -> loop variable
    attempts,            \* view -> list of GenerationAttempt
    best_attempt,        \* view -> <<>> (None) or <<attempt>>
    prompt_text,         \* view -> text of the message of the current turn
    image_b64,           \* view -> image of the current turn
    result,              \* view -> ImageGenResult
    key_objects,         \* profile.key_objects, the ranked names
    forward_objects,     \* layout.forward_objects
    backward_objects,    \* layout.backward_objects
    llm_forward,         \* forward_objects as the layout call returned them
    llm_backward,        \* backward_objects as the layout call returned them
    dual_view,           \* the dual_view argument of design_prompt
    lpc,                 \* position of design_prompt
    design_calls,        \* model calls issued by design_prompt, in order
    analyses,            \* the list of PostAnalysisWithMeta handed to Stage 2
    agg_pc,              \* position of aggregate_analyses
    agg_error,           \* exception that left aggregate_analyses, "" if none
    agg_calls,           \* model calls issued by aggregate_analyses, in order
    dedup_response,      \* groups of the parsed dedup response
    dedup_map,           \* raw name -> canonical name
    scored_objects,      \* list of ScoredObject
    round_up,            \* names whose importance sum lies on a rounding tie and
                         \* is rounded up by the floating-point sum
    vlm_response,        \* <<>> or <<_AggregationVLMResponse>>
    scenes,              \* a.analysis.scene of every analysis, in order
    atmosphere,          \* <<>> or <<RoomAtmosphere>>
    ref_objects,         \* profile.key_objects with their source image URLs
    visible_names,       \* the object names of one viewpoint
    reference_image_urls,    \* urls returned by _build_reference_images_for_view
    reference_image_mapping, \* 1-based index -> names, as returned
    rpc,                 \* "build" before and "built" after the call
    all_placements,      \* layout.object_placements, each a sequence of symbols
    object_names,        \* the object names of a _ViewLayout
    object_placements,   \* the placements the _ViewLayout keeps
    mpc,                 \* "filter" before and "filtered" after _ViewLayout
    run_3d_conversion,   \* the run_3d_conversion argument of run_pipeline
    profile,             \* the AggregatedProfile of the run (its persona summary)
    final_image,         \* view -> final_image_base64 of the Stage 4 result
    worldlabs_key,       \* WORLDLABS_API_KEY is set
    ppc,                 \* position of run_pipeline
    text_prompt_3d,      \* <<>> (None) or the spatial prompt, a sequence of symbols
    prompt_response,     \* the outcome of the model call of generate_3d_prompt
    stage5_error,        \* exception raised inside the try of Stage 5
    scene_result,        \* <<>> (None) or <<ConvertToSceneResult>>
    returned,            \* <<>> or <<the tuple run_pipeline returned>>
    cpc,                 \* position of convert_to_3d_scene
    request,             \* <<>> or <<ConvertToSceneRequest>>
    upload,              \* the _upload_image tasks, in the order they were created
    submitted,           \* <<>> or <<the WorldPrompt posted to /worlds:generate>>
    status,              \* <<>> or <<the OperationStatus of the last poll>>
    now,                 \* time.monotonic(), in seconds
    deadline,            \* deadline of _poll_operation
    called,              \* the endpoints convert_to_3d_scene has sent a request to
    convert_error,       \* exception that left convert_to_3d_scene
    convert_cause,       \* exception raised inside the try of convert_to_3d_scene
                         \* (the __cause__ of a wrapped error)
    fetched_world,       \* <<>> or <<the World that _get_world returned>>
    crawl_posts,         \* crawl_result.posts: for each post whether it has image urls
    gemini_key,          \* GOOGLE_API_KEY is set
    tpc,                 \* post -> position or outcome of its _analyze_one task
    apc,                 \* position of run_pipeline in Stage 1
    run_error            \* exception that left run_pipeline in Stage 1, "" if none

gen_vars == <<has_backward_prompt, pc, error, ref_images, chat, turns, critique_calls,
              vpc, vchat, attempt_num, attempts, best_attempt, prompt_text,
              image_b64, result>>

layout_vars == <<key_objects, forward_objects, backward_objects, llm_forward,
                 llm_backward, dual_view, lpc, design_calls>>

agg_vars == <<analyses, agg_pc, agg_error, agg_calls, dedup_response, dedup_map,
              scored_objects, round_up, vlm_response, scenes, atmosphere>>

refs_vars == <<ref_objects, visible_names, reference_image_urls,
               reference_image_mapping, rpc>>

view_vars == <<all_placements, object_names, object_placements, mpc>>

convert_vars == <<cpc, request, upload, submitted, status, now, deadline, called,
                  convert_error, convert_cause, fetched_world>>

scene_vars == <<run_3d_conversion, profile, final_image, worldlabs_key, ppc,
                text_prompt_3d, prompt_response, stage5_error, scene_result, returned,
                convert_vars>>

\* The variables outside Stage 3 and Stage 4.
analyze_vars == <<crawl_posts, gemini_key, tpc, apc, run_error>>

rest_vars == <<agg_vars, refs_vars, view_vars, scene_vars, analyze_vars>>

vars == <<gen_vars, layout_vars, rest_vars>>

Views == {"forward", "backward"}

InitAggIdle ==
    /\ analyses = <<>>
    /\ agg_pc = "idle"
    /\ agg_error = ""
    /\ agg_calls = <<>>
    /\ dedup_response = <<>>
    /\ dedup_map = <<>>
    /\ scored_objects = <<>>
    /\ round_up = {}
    /\ vlm_response = <<>>
    /\ scenes = <<>>
    /\ atmosphere = <<>>

InitRefsIdle ==
    /\ ref_objects = <<>>
    /\ visible_names = <<>>
    /\ reference_image_urls = <<>>
    /\ reference_image_mapping = <<>>
    /\ rpc = "idle"

InitViewIdle ==
    /\ all_placements = <<>>
    /\ object_names = <<>>
    /\ object_placements = <<>>
    /\ mpc = "idle"

NoError == [type |-> "", message |-> <<>>]

\* No model call is made for the spatial prompt.
NoResponse == [kind |-> "", text |-> <<>>]

InitConvertIdle ==
    /\ cpc = "idle"
    /\ request = <<>>
    /\ upload = <<>>
    /\ submitted = <<>>
    /\ status = <<>>
    /\ now = 0
    /\ deadline = 0
    /\ called = {}
    /\ convert_error = NoError
    /\ convert_cause = NoError
    /\ fetched_world = <<>>

InitSceneIdle ==
    /\ run_3d_conversion = FALSE
    /\ profile = ""
    /\ final_image = [v \in Views |-> ""]
    /\ worldlabs_key = FALSE
    /\ ppc = "idle"
    /\ text_prompt_3d = <<>>
    /\ prompt_response = NoResponse
    /\ stage5_error = NoError
    /\ scene_result = <<>>
    /\ returned = <<>>
    /\ InitConvertIdle

InitAnalyzeIdle ==
    /\ crawl_posts = <<>>
    /\ gemini_key = TRUE
    /\ tpc = <<>>
    /\ apc = "idle"
    /\ run_error = ""

(***************************************************************************)
(* Stage 4 data model                                                      *)
(***************************************************************************)

_CRITIQUE_THRESHOLD == 350

_MAX_ATTEMPTS_three == 2 + 1

_MAX_ATTEMPTS == 2

MaxRefs == 1

\* A CritiqueScores value is the tuple <<object_presence, atmosphere_match,
\* spatial_coherence, overall_quality>>; None is the empty tuple.
None == <<>>

\* CritiqueScores.avg_score, in hundredths: (sum / 4.0) * 100.
avg_score(c) == (c[1] + c[2] + c[3] + c[4]) * 25

\* Critique answers that validate as CritiqueScores (every score in 1..4).
CritiqueSamples ==
    { <<4, 4, 4, 4>>, <<4, 4, 3, 3>>, <<4, 4, 4, 2>>,
      <<4, 3, 3, 3>>, <<4, 4, 4, 1>>, <<3, 3, 3, 3>>, <<2, 4, 3, 3>>,
      <<3, 2, 3, 3>>, <<3, 3, 1, 3>>, <<1, 1, 1, 1>> }

\* Outcomes of chat.send_message in _chat_generate.
GenOutcomes == {"exception", "no_candidates", "no_image_part", "image"}

GenerationAttempt(n, img, crit, text) ==
    [attempt_number |-> n, image_base64 |-> img, critique |-> crit, prompt_used |-> text]

ImageGenResult(img, crit, atts, n) ==
    [final_image_base64 |-> img, final_critique |-> crit, attempts |-> atts,
     total_attempts |-> n]

\* The payload of the image answered to the k-th turn of the session: every
\* generated image is a distinct base64 string.
ImageOfTurn(k) == <<"img1", "img2", "img3", "img4", "img5", "img6">>[k]

_BACKWARD_TRANSITION == "backward_transition"

_build_refinement_message_no_fallback(critique) ==
    LET c == IF critique = None THEN <<3, 3, 3, 3>> ELSE critique
        i1 == IF c[1] < 3 THEN <<"object_presence">> ELSE <<>>
        i2 == IF c[2] < 3 THEN <<"atmosphere_match">> ELSE <<>>
        i3 == IF c[3] < 3 THEN <<"spatial_coherence">> ELSE <<>>
        i4 == IF c[4] < 3 THEN <<"overall_quality">> ELSE <<>>
        found == i1 \o i2 \o i3 \o i4
        issues == IF found = <<>> THEN <<"could_be_better">> ELSE found
    IN  <<"refine">> \o issues \o <<"keep_layout">>

_build_refinement_message_up_to_3(critique) ==
    IF critique = None
    THEN <<"needs_improvement">>
    ELSE LET i1 == IF critique[1] <= 3 THEN <<"object_presence">> ELSE <<>>
             i2 == IF critique[2] <= 3 THEN <<"atmosphere_match">> ELSE <<>>
             i3 == IF critique[3] <= 3 THEN <<"spatial_coherence">> ELSE <<>>
             i4 == IF critique[4] <= 3 THEN <<"overall_quality">> ELSE <<>>
             found == i1 \o i2 \o i3 \o i4
             issues == IF found = <<>> THEN <<"could_be_better">> ELSE found
         IN  <<"refine">> \o issues \o <<"keep_layout">>

\* _build_refinement_message: the lines of the message.
_build_refinement_message(critique) ==
    IF critique = None
    THEN <<"needs_improvement">>
    ELSE LET i1 == IF critique[1] < 3 THEN <<"object_presence">> ELSE <<>>
             i2 == IF critique[2] < 3 THEN <<"atmosphere_match">> ELSE <<>>
             i3 == IF critique[3] < 3 THEN <<"spatial_coherence">> ELSE <<>>
             i4 == IF critique[4] < 3 THEN <<"overall_quality">> ELSE <<>>
             found == i1 \o i2 \o i3 \o i4
             issues == IF found = <<>> THEN <<"could_be_better">> ELSE found
         IN  <<"refine">> \o issues \o <<"keep_layout">>

\* _critique_image on one answer of the critique model: the value it returns,
\* or the exception it lets through.
CritiqueOutcomes ==
    { [kind |-> k, scores |-> None] : k \in {"exception", "empty", "invalid"} }
    \cup { [kind |-> "valid", scores |-> s] : s \in CritiqueSamples }

_critique_image(outcome) ==
    CASE outcome.kind = "exception" -> [raised |-> FALSE, value |-> None]
      [] outcome.kind = "empty"     -> [raised |-> FALSE, value |-> None]
      [] outcome.kind = "invalid"   -> [raised |-> TRUE,  value |-> None]
      [] OTHER                      -> [raised |-> FALSE, value |-> outcome.scores]

\* _chat_generate on one answer of the image model: TRUE iff an image comes back.
_chat_generate(outcome) == outcome = "image"

transition_prefix(v) == IF v = "backward" THEN <<_BACKWARD_TRANSITION>> ELSE <<>>

\* The best-attempt update of the loop: attempt replaces best_attempt.
ReplacesBest_latest_uncritiqued(best, critique) ==
    \/ best = None
    \/ critique = None
    \/ best[1].critique = None
    \/ avg_score(critique) > avg_score(best[1].critique)

ReplacesBest_ties_replace(best, critique) ==
    \/ best = None
    \/ /\ critique # None
       /\ \/ best[1].critique = None
          \/ avg_score(critique) >= avg_score(best[1].critique)

ReplacesBest(best, critique) ==
    \/ best = None
    \/ /\ critique # None
       /\ \/ best[1].critique = None
          \/ avg_score(critique) > avg_score(best[1].critique)

\* The two break statements of the loop.
LoopDecision_retry_without_critique(critique) ==
    IF critique = None THEN "continue"
    ELSE IF avg_score(critique) >= _CRITIQUE_THRESHOLD THEN "break"
    ELSE "continue"

LoopDecision_never_accepts(critique) ==
    IF critique = None THEN "break" ELSE "continue"

LoopDecision(critique) ==
    IF critique = None THEN "break"
    ELSE IF avg_score(critique) >= _CRITIQUE_THRESHOLD THEN "break"
    ELSE "continue"

(***************************************************************************)
(* Stage 4: generate_dual_room_images and _generate_single_view            *)
(***************************************************************************)

InitGen ==
    /\ has_backward_prompt \in BOOLEAN
    /\ pc = "download"
    /\ error = ""
    /\ ref_images = [v \in Views |-> 0]
    /\ chat = 0
    /\ turns = <<>>
    /\ critique_calls = <<>>
    /\ vpc = [v \in Views |-> "idle"]
    /\ vchat = [v \in Views |-> 0]
    /\ attempt_num = [v \in Views |-> 0]
    /\ attempts = [v \in Views |-> <<>>]
    /\ best_attempt = [v \in Views |-> None]
    /\ prompt_text = [v \in Views |-> <<>>]
    /\ image_b64 = [v \in Views |-> ""]
    /\ result = [v \in Views |-> ImageGenResult("", None, <<>>, 0)]

\* asyncio.gather of _download_reference_images (the backward one only when
\* backward_prompt is given): any number of the images may fail to download.
DownloadReferenceImages ==
    /\ pc = "download"
    /\ \E f \in 0..MaxRefs, b \in 0..MaxRefs :
          /\ ~has_backward_prompt => b = 0
          /\ ref_images' = [forward |-> f, backward |-> b]
    /\ pc' = "create_chat"
    /\ UNCHANGED <<has_backward_prompt, error, chat, turns, critique_calls, vpc, vchat,
                   attempt_num, attempts, best_attempt, prompt_text, image_b64, result>>
    /\ UNCHANGED <<layout_vars, rest_vars>>

\* get_gemini_client() and client.aio.chats.create: one session for the run.
CreateChat ==
    /\ pc = "create_chat"
    /\ \E api_key \in BOOLEAN :
          IF api_key
          THEN /\ chat' = chat + 1
               /\ pc' = "forward"
               /\ error' = error
          ELSE /\ chat' = chat
               /\ pc' = "raised"
               /\ error' = "RuntimeError"
    /\ UNCHANGED <<has_backward_prompt, ref_images, turns, critique_calls, vpc, vchat,
                   attempt_num, attempts, best_attempt, prompt_text, image_b64, result>>
    /\ UNCHANGED <<layout_vars, rest_vars>>

\* generate_dual_room_images awaits the forward call before it makes the
\* backward one.
CanStartView_gathered(v) ==
    /\ vpc[v] = "idle"
    /\ pc \in {"forward", "backward"}
    /\ v = "backward" => has_backward_prompt

CanStartView(v) ==
    /\ vpc[v] = "idle"
    /\ IF v = "forward" THEN pc = "forward" ELSE pc = "backward"

\* Entry of _generate_single_view(chat=chat, ...).
StartView(v) ==
    /\ CanStartView(v)
    /\ vpc' = [vpc EXCEPT ![v] = "send"]
    /\ vchat' = [vchat EXCEPT ![v] = chat]
    /\ attempt_num' = [attempt_num EXCEPT ![v] = 1]
    /\ attempts' = [attempts EXCEPT ![v] = <<>>]
    /\ best_attempt' = [best_attempt EXCEPT ![v] = None]
    /\ UNCHANGED <<has_backward_prompt, pc, error, ref_images, chat, turns,
                   critique_calls, prompt_text, image_b64, result>>
    /\ UNCHANGED <<layout_vars, rest_vars>>

\* Top of a loop iteration up to the await of chat.send_message.
SendMessage(v) ==
    /\ vpc[v] = "send"
    /\ LET text == IF attempt_num[v] = 1
                   THEN transition_prefix(v) \o <<"final_prompt">>
                   ELSE _build_refinement_message(
                            IF best_attempt[v] # None
                            THEN best_attempt[v][1].critique ELSE None)
           images == IF attempt_num[v] = 1 THEN ref_images[v] ELSE 0
       IN  /\ prompt_text' = [prompt_text EXCEPT ![v] = text]
           /\ turns' = Append(turns, [session |-> vchat[v], view |-> v,
                                      attempt_number |-> attempt_num[v],
                                      text |-> text, images |-> images,
                                      answered |-> FALSE])
    /\ vpc' = [vpc EXCEPT ![v] = "await_image"]
    /\ UNCHANGED <<has_backward_prompt, pc, error, ref_images, chat, critique_calls,
                   vchat, attempt_num, attempts, best_attempt, image_b64, result>>
    /\ UNCHANGED <<layout_vars, rest_vars>>

\* The code after the loop: the result of the view, and the return into
\* generate_dual_room_images.
Return_backward_always(v, atts, best) ==
    LET b == IF best # None THEN best[1]
             ELSE IF atts # <<>> THEN atts[Len(atts)]
             ELSE GenerationAttempt(0, "", None, <<>>)
    IN  /\ attempts' = [attempts EXCEPT ![v] = atts]
        /\ best_attempt' = [best_attempt EXCEPT ![v] = <<b>>]
        /\ result' = [result EXCEPT ![v] =
                         ImageGenResult(b.image_base64, b.critique, atts, Len(atts))]
        /\ vpc' = [vpc EXCEPT ![v] = "returned"]
        /\ pc' = IF v = "forward" THEN "backward" ELSE "done"
        /\ UNCHANGED attempt_num

Return(v, atts, best) ==
    LET b == IF best # None THEN best[1]
             ELSE IF atts # <<>> THEN atts[Len(atts)]
             ELSE GenerationAttempt(0, "", None, <<>>)
    IN  /\ attempts' = [attempts EXCEPT ![v] = atts]
        /\ best_attempt' = [best_attempt EXCEPT ![v] = <<b>>]
        /\ result' = [result EXCEPT ![v] =
                         ImageGenResult(b.image_base64, b.critique, atts, Len(atts))]
        /\ vpc' = [vpc EXCEPT ![v] = "returned"]
        /\ pc' = IF v = "forward" /\ has_backward_prompt THEN "backward" ELSE "done"
        /\ UNCHANGED attempt_num

\* End of a loop iteration that did not break: range(1, _MAX_ATTEMPTS + 1).
NextIteration(v, atts, best) ==
    IF attempt_num[v] < _MAX_ATTEMPTS
    THEN /\ attempt_num' = [attempt_num EXCEPT ![v] = @ + 1]
         /\ attempts' = [attempts EXCEPT ![v] = atts]
         /\ best_attempt' = [best_attempt EXCEPT ![v] = best]
         /\ vpc' = [vpc EXCEPT ![v] = "send"]
         /\ UNCHANGED <<result, pc>>
    ELSE Return(v, atts, best)

\* The turn of view v that is not answered yet.
OpenTurn(v) ==
    CHOOSE k \in 1..Len(turns) : turns[k].view = v /\ ~turns[k].answered

\* chat.send_message answers: _chat_generate returns, and the loop either
\* records a failed attempt and continues or calls _critique_image.
ChatResponse(v) ==
    /\ vpc[v] = "await_image"
    /\ \E outcome \in GenOutcomes :
          /\ turns' = [turns EXCEPT ![OpenTurn(v)].answered = TRUE]
          /\ IF ~_chat_generate(outcome)
             THEN /\ NextIteration(v,
                        Append(attempts[v],
                               GenerationAttempt(attempt_num[v], "", None, prompt_text[v])),
                        best_attempt[v])
                  /\ UNCHANGED <<image_b64, critique_calls>>
             ELSE /\ image_b64' = [image_b64 EXCEPT ![v] = ImageOfTurn(OpenTurn(v))]
                  /\ critique_calls' = Append(critique_calls,
                                          [view |-> v, attempt_number |-> attempt_num[v]])
                  /\ vpc' = [vpc EXCEPT ![v] = "await_critique"]
                  /\ UNCHANGED <<pc, attempt_num, attempts, best_attempt, result>>
    /\ UNCHANGED <<has_backward_prompt, error, ref_images, chat, vchat, prompt_text>>
    /\ UNCHANGED <<layout_vars, rest_vars>>

\* The critique call answers: the attempt is recorded, the best attempt is
\* updated, and the loop breaks or goes on; an exception out of
\* _critique_image leaves _generate_single_view and generate_dual_room_images.
CritiqueResponse(v) ==
    /\ vpc[v] = "await_critique"
    /\ \E outcome \in CritiqueOutcomes :
          LET r == _critique_image(outcome)
              critique == r.value
              attempt == GenerationAttempt(attempt_num[v], image_b64[v], critique,
                                           prompt_text[v])
              atts == Append(attempts[v], attempt)
              best == IF ReplacesBest(best_attempt[v], critique)
                      THEN <<attempt>> ELSE best_attempt[v]
          IN  IF r.raised
              THEN /\ vpc' = [vpc EXCEPT ![v] = "raised"]
                   /\ pc' = "raised"
                   /\ error' = "ValidationError"
                   /\ UNCHANGED <<attempt_num, attempts, best_attempt, result>>
              ELSE /\ IF LoopDecision(critique) = "break"
                      THEN Return(v, atts, best)
                      ELSE NextIteration(v, atts, best)
                   /\ error' = error
    /\ UNCHANGED <<has_backward_prompt, ref_images, chat, turns, critique_calls, vchat,
                   prompt_text, image_b64>>
    /\ UNCHANGED <<layout_vars, rest_vars>>

InitLayoutIdle ==
    /\ key_objects = <<>>
    /\ forward_objects = <<>>
    /\ backward_objects = <<>>
    /\ llm_forward = <<>>
    /\ llm_backward = <<>>
    /\ dual_view = FALSE
    /\ lpc = "idle"
    /\ design_calls = <<>>

Init ==
    /\ InitGen /\ InitLayoutIdle
    /\ InitAggIdle /\ InitRefsIdle /\ InitViewIdle /\ InitSceneIdle /\ InitAnalyzeIdle

Next ==
    \/ DownloadReferenceImages
    \/ CreateChat
    \/ \E v \in Views : StartView(v)
    \/ \E v \in Views : SendMessage(v)
    \/ \E v \in Views : ChatResponse(v)
    \/ \E v \in Views : CritiqueResponse(v)

Spec == Init /\ [][Next]_vars

(***************************************************************************)
(* Stage 3: design_prompt, the layout call and the repair of its lists     *)
(***************************************************************************)

MaxObjects == 3

MaxListLen == 3

\* Canonical object names the profile can hold.
ObjectNames == {"guitar", "plant", "cat"}

\* A layout answer that names six objects.
SixObjects == <<"guitar", "plant", "cat", "lamp", "desk", "rug">>

RECURSIVE SeqsUpTo(_, _)
SeqsUpTo(S, n) ==
    IF n = 0 THEN {<<>>}
    ELSE LET shorter == SeqsUpTo(S, n - 1)
         IN  shorter \cup {Append(s, x) : s \in shorter, x \in S}

Range(s) == {s[i] : i \in 1..Len(s)}

\* profile.key_objects: ranked, one entry per canonical name.
KeyObjectLists ==
    {s \in SeqsUpTo(ObjectNames, MaxObjects) : Cardinality(Range(s)) = Len(s)}

\* forward_objects / backward_objects as the layout model may return them.
LayoutLists == SeqsUpTo(ObjectNames, MaxListLen) \cup {SixObjects}

\* len(xs) // 2 or 1
half_rounded_up(n) == (n + 1) \div 2

half(n) == IF n \div 2 = 0 THEN 1 ELSE n \div 2

\* xs[:k] and xs[k:]
Take(xs, k) == SubSeq(xs, 1, IF k < Len(xs) THEN k ELSE Len(xs))

Drop(xs, k) == SubSeq(xs, (IF k < Len(xs) THEN k ELSE Len(xs)) + 1, Len(xs))

EveryOther_contiguous(xs, start) ==
    IF start = 0 THEN Take(xs, (Len(xs) + 1) \div 2) ELSE Drop(xs, (Len(xs) + 1) \div 2)

\* xs[start::2], start counted from 0
RECURSIVE EveryOther(_, _)
EveryOther(xs, start) ==
    IF start >= Len(xs) THEN <<>>
    ELSE <<xs[start + 1]>> \o EveryOther(xs, start + 2)

\* The repair at the head of _design_dual_view: the lists used downstream.
DualViewLists(names, fwd, bwd) ==
    IF fwd = <<>> /\ bwd = <<>>
    THEN [forward |-> EveryOther(names, 0), backward |-> EveryOther(names, 1)]
    ELSE IF fwd = <<>>
    THEN [forward |-> Take(bwd, half(Len(bwd))), backward |-> Drop(bwd, half(Len(bwd)))]
    ELSE IF bwd = <<>>
    THEN [forward |-> Take(fwd, half(Len(fwd))), backward |-> Drop(fwd, half(Len(fwd)))]
    ELSE [forward |-> fwd, backward |-> bwd]

\* The head of _design_single_view.
SingleViewLists(names, fwd, bwd) ==
    [forward |-> IF fwd = <<>> THEN names ELSE fwd, backward |-> <<>>]

ViewCalls_again(step) ==
    IF dual_view THEN <<<<step, "forward">>, <<step, "backward">>>>
    ELSE <<<<step, "forward">>, <<step, "forward">>>>

\* The generate_content calls of one step of design_prompt, <<step, view>>:
\* one call per viewpoint of the mode.
ViewCalls(step) ==
    IF dual_view THEN <<<<step, "forward">>, <<step, "backward">>>>
    ELSE <<<<step, "forward">>>>

InitGenIdle ==
    /\ has_backward_prompt = FALSE
    /\ pc = "idle"
    /\ error = ""
    /\ ref_images = [v \in Views |-> 0]
    /\ chat = 0
    /\ turns = <<>>
    /\ critique_calls = <<>>
    /\ vpc = [v \in Views |-> "idle"]
    /\ vchat = [v \in Views |-> 0]
    /\ attempt_num = [v \in Views |-> 0]
    /\ attempts = [v \in Views |-> <<>>]
    /\ best_attempt = [v \in Views |-> None]
    /\ prompt_text = [v \in Views |-> <<>>]
    /\ image_b64 = [v \in Views |-> ""]
    /\ result = [v \in Views |-> ImageGenResult("", None, <<>>, 0)]

InitLayout ==
    /\ key_objects \in KeyObjectLists
    /\ dual_view \in BOOLEAN
    /\ forward_objects = <<>>
    /\ backward_objects = <<>>
    /\ llm_forward = <<>>
    /\ llm_backward = <<>>
    /\ lpc = "plan"
    /\ design_calls = <<>>

\* _plan_layout: the call raises, answers nothing (the default response), answers
\* text that does not validate, or answers a layout.
PlanLayout ==
    /\ lpc = "plan"
    /\ \/ /\ lpc' = "raised"
          /\ UNCHANGED <<llm_forward, llm_backward>>
       \/ /\ lpc' = "planned"
          /\ UNCHANGED <<llm_forward, llm_backward>>
       \/ \E fwd \in LayoutLists, bwd \in LayoutLists :
             /\ llm_forward' = fwd
             /\ llm_backward' = bwd
             /\ lpc' = "planned"
    /\ forward_objects' = llm_forward'
    /\ backward_objects' = llm_backward'
    /\ design_calls' = Append(design_calls, <<"layout", "">>)
    /\ UNCHANGED <<key_objects, dual_view>>
    /\ UNCHANGED <<gen_vars, rest_vars>>

\* _design_dual_view up to its first await, the gather of the two
\* _describe_objects calls.
DesignDualView ==
    /\ lpc = "planned"
    /\ dual_view
    /\ LET lists == DualViewLists(key_objects, forward_objects, backward_objects)
       IN  /\ forward_objects' = lists.forward
           /\ backward_objects' = lists.backward
    /\ lpc' = "designed"
    /\ design_calls' = design_calls \o ViewCalls("describe")
    /\ UNCHANGED <<key_objects, dual_view, llm_forward, llm_backward>>
    /\ UNCHANGED <<gen_vars, rest_vars>>

\* _design_single_view up to its first await, the _describe_objects call.
DesignSingleView ==
    /\ lpc = "planned"
    /\ ~dual_view
    /\ LET lists == SingleViewLists(key_objects, forward_objects, backward_objects)
       IN  /\ forward_objects' = lists.forward
           /\ backward_objects' = lists.backward
    /\ lpc' = "designed"
    /\ design_calls' = design_calls \o ViewCalls("describe")
    /\ UNCHANGED <<key_objects, dual_view, llm_forward, llm_backward>>
    /\ UNCHANGED <<gen_vars, rest_vars>>

\* The _describe_objects calls have ended: an exception of one of them leaves
\* design_prompt, otherwise the _assemble_final_prompt calls are made.
DescribeResponse ==
    /\ lpc = "designed"
    /\ \/ /\ lpc' = "raised"
          /\ UNCHANGED design_calls
       \/ /\ lpc' = "assemble"
          /\ design_calls' = design_calls \o ViewCalls("assemble")
    /\ UNCHANGED <<key_objects, dual_view, llm_forward, llm_backward, forward_objects,
                   backward_objects>>
    /\ UNCHANGED <<gen_vars, rest_vars>>

\* The _assemble_final_prompt calls have ended: an exception leaves
\* design_prompt, otherwise it returns the prompts.
AssembleResponse ==
    /\ lpc = "assemble"
    /\ lpc' \in {"raised", "returned"}
    /\ UNCHANGED <<key_objects, dual_view, llm_forward, llm_backward, forward_objects,
                   backward_objects, design_calls>>
    /\ UNCHANGED <<gen_vars, rest_vars>>

NextLayout ==
    \/ PlanLayout
    \/ DesignDualView
    \/ DesignSingleView
    \/ DescribeResponse
    \/ AssembleResponse

InitDesign ==
    /\ InitGenIdle /\ InitLayout
    /\ InitAggIdle /\ InitRefsIdle /\ InitViewIdle /\ InitSceneIdle /\ InitAnalyzeIdle

SpecLayout == InitDesign /\ [][NextLayout]_vars

(***************************************************************************)
(* Stage 2: aggregate_analyses, the dedup call, the scoring, the persona   *)
(* call.  Importance is kept in ten-thousandths (round(importance, 4)).    *)
(***************************************************************************)

_TOP_OBJECTS == 8

MaxPosts == 2

MaxGroups == 2

\* _PROMINENCE_SCORE in tenths; .get(obj.prominence, 0.2)
_PROMINENCE_SCORE(prominence) ==
    IF prominence = "center" THEN 10 ELSE IF prominence = "background" THEN 5 ELSE 2

DetectedObject(name, prominence) == [name |-> name, prominence |-> prominence]

\* A post that shows nine different objects.
NineObjects ==
    <<DetectedObject("guitar", "center"), DetectedObject("plant", "background"),
      DetectedObject("cat", "minor"), DetectedObject("lamp", "center"),
      DetectedObject("desk", "background"), DetectedObject("rug", "minor"),
      DetectedObject("books", "center"), DetectedObject("mug", "background"),
      DetectedObject("poster", "minor")>>

\* PostAnalysis.objects of one post.
ObjectListSamples ==
    {<<>>, <<DetectedObject("guitar", "center")>>,
     <<DetectedObject("acoustic_guitar", "background")>>, NineObjects}

\* Analyses reach Stage 2 only for posts with at least one image; the post's
\* first image URL stands for the post.
PostAnalysisWithMeta(post_index, objects, emotional_weight, likes) ==
    [post_index |-> post_index, objects |-> objects,
     emotional_weight |-> emotional_weight, likes |-> likes,
     image_urls |-> <<"img" \o ToString(post_index)>>]

\* analyze_posts numbers the analyses by post.
Indexed(posts) ==
    [i \in 1..Len(posts) |->
        PostAnalysisWithMeta(i, posts[i].objects, posts[i].emotional_weight, posts[i].likes)]

\* Three posts: guitar at the center, guitar in the background, and a post
\* with a plant only, with any emotional weights and like counts.
GuitarFixtures ==
    {Indexed(<<PostAnalysisWithMeta(0, <<DetectedObject("guitar", "center")>>, e[1], l[1]),
               PostAnalysisWithMeta(0, <<DetectedObject("guitar", "background")>>, e[2], l[2]),
               PostAnalysisWithMeta(0, <<DetectedObject("plant", p)>>, e[3], l[3])>>) :
        e \in [1..3 -> {1, 3, 5}], l \in [1..3 -> {-1, 0, 2, 7}],
        p \in {"center", "background", "minor"}}

\* Lists of analyses: emotional_weight at the two ends of its range (ge=1,
\* le=5); likes any int, the scraper reports hidden like counts as negative.
AnalysisLists ==
    {Indexed(s) : s \in SeqsUpTo({PostAnalysisWithMeta(0, o, e, l) :
                                     o \in ObjectListSamples, e \in {1, 5},
                                     l \in {-3, -1, 0, 2}},
                                 MaxPosts)}

_collect_object_names(posts) ==
    UNION {{posts[i].objects[j].name : j \in 1..Len(posts[i].objects)} : i \in 1..Len(posts)}

\* _DedupGroup: the groups a parsed dedup response can hold, any canonical
\* with any variants.
DedupGroups ==
    [canonical : {"guitar", "acoustic_guitar", "plant", "instrument"},
     variants : SUBSET {"guitar", "acoustic_guitar", "plant"}]

\* The loop over dedup.groups: later groups overwrite earlier entries.
RECURSIVE GroupsMapping(_, _)
GroupsMapping(mapping, groups) ==
    IF groups = <<>> THEN mapping
    ELSE LET group == Head(groups)
             keys == DOMAIN mapping \cup group.variants \cup {group.canonical}
             updated == [k \in keys |->
                            IF k \in group.variants \/ k = group.canonical
                            THEN group.canonical ELSE mapping[k]]
         IN  GroupsMapping(updated, Tail(groups))

\* The mapping _deduplicate_objects builds from a parsed response.
ParsedMapping(names, groups) ==
    LET mapping == GroupsMapping(<<>>, groups)
    IN  [n \in DOMAIN mapping \cup names |-> IF n \in DOMAIN mapping THEN mapping[n] ELSE n]

\* One entry per detected object, in the order of the two scoring loops.
RECURSIVE Occurrences(_, _)
Occurrences(posts, mapping) ==
    IF posts = <<>> THEN <<>>
    ELSE LET a == Head(posts)
         IN  [j \in 1..Len(a.objects) |->
                [canonical |-> IF a.objects[j].name \in DOMAIN mapping
                               THEN mapping[a.objects[j].name] ELSE a.objects[j].name,
                 prom_score |-> _PROMINENCE_SCORE(a.objects[j].prominence),
                 emotional_weight |-> a.emotional_weight,
                 likes |-> a.likes,
                 image_urls |-> a.image_urls]]
             \o Occurrences(Tail(posts), mapping)

\* The keys of object_stats in insertion order.
RECURSIVE StatsKeys(_)
StatsKeys(occ) ==
    IF occ = <<>> THEN <<>>
    ELSE LET earlier == StatsKeys(SubSeq(occ, 1, Len(occ) - 1))
             c == occ[Len(occ)].canonical
         IN  IF c \in Range(earlier) THEN earlier ELSE Append(earlier, c)

RECURSIVE Sum(_)
Sum(xs) == IF xs = <<>> THEN 0 ELSE Head(xs) + Sum(Tail(xs))

\* max((a.likes for a in analyses), default=1) or 1
max_likes(posts) ==
    IF posts = <<>> THEN 1
    ELSE LET m == CHOOSE l \in {posts[i].likes : i \in 1..Len(posts)} :
                     \A i \in 1..Len(posts) : posts[i].likes <= l
         IN  IF m = 0 THEN 1 ELSE m

\* n / d rounded to the nearest integer.  The code rounds a floating-point
\* sum: when the exact value lies halfway, the sum's error decides, so the
\* direction is an input (up).
RoundRatio(n, d, up) ==
    LET num == IF d < 0 THEN 0 - n ELSE n
        den == IF d < 0 THEN 0 - d ELSE d
        q == num \div den
        r == num % den
    IN  IF 2 * r < den THEN q
        ELSE IF 2 * r > den THEN q + 1
        ELSE IF up THEN q + 1 ELSE q

importance_without_frequency(stats, max_count, maxlikes, up) ==
    LET count == Len(stats)
        prominences == Sum([i \in 1..count |-> stats[i].prom_score])
        emotional_weights == Sum([i \in 1..count |-> stats[i].emotional_weight])
        likes == Sum([i \in 1..count |-> stats[i].likes])
    IN  RoundRatio(250 * prominences * max_count * maxlikes
                     + 500 * emotional_weights * max_count * maxlikes
                     + 2000 * likes * max_count,
                   max_count * count * maxlikes, up)

\* round(freq * 0.3 + avg_prom * 0.25 + avg_emo * 0.25 + avg_likes * 0.2, 4)
importance(stats, max_count, maxlikes, up) ==
    LET count == Len(stats)
        prominences == Sum([i \in 1..count |-> stats[i].prom_score])
        emotional_weights == Sum([i \in 1..count |-> stats[i].emotional_weight])
        likes == Sum([i \in 1..count |-> stats[i].likes])
    IN  RoundRatio(3000 * count * count * maxlikes
                     + 250 * prominences * max_count * maxlikes
                     + 500 * emotional_weights * max_count * maxlikes
                     + 2000 * likes * max_count,
                   max_count * count * maxlikes, up)

RECURSIVE best_image_url_latest(_, _, _)
best_image_url_latest(stats, best_prominence, url) ==
    IF stats = <<>> THEN url
    ELSE IF Head(stats).prom_score >= best_prominence /\ Head(stats).image_urls # <<>>
    THEN best_image_url_latest(Tail(stats), Head(stats).prom_score, Head(stats).image_urls[1])
    ELSE best_image_url_latest(Tail(stats), best_prominence, url)

\* The image of the first occurrence whose prominence beats every earlier one.
RECURSIVE best_image_url(_, _, _)
best_image_url(stats, best_prominence, url) ==
    IF stats = <<>> THEN url
    ELSE IF Head(stats).prom_score > best_prominence /\ Head(stats).image_urls # <<>>
    THEN best_image_url(Tail(stats), Head(stats).prom_score, Head(stats).image_urls[1])
    ELSE best_image_url(Tail(stats), best_prominence, url)

ScoredObject(name, imp, source_image_url) ==
    [name |-> name, importance |-> imp, source_image_url |-> source_image_url]

\* The list scored before it is sorted, in object_stats order.
Scored(posts, mapping, ups) ==
    LET occ == Occurrences(posts, mapping)
        keys == StatsKeys(occ)
        object_stats == [c \in Range(keys) |-> SelectSeq(occ, LAMBDA o : o.canonical = c)]
        max_count == CHOOSE n \in {Len(object_stats[c]) : c \in Range(keys)} :
                        \A c \in Range(keys) : Len(object_stats[c]) <= n
        maxlikes == max_likes(posts)
    IN  [k \in 1..Len(keys) |->
            ScoredObject(keys[k],
                         importance(object_stats[keys[k]], max_count, maxlikes,
                                    keys[k] \in ups),
                         best_image_url(object_stats[keys[k]], 0, ""))]

sort_ascending(xs) ==
    LET Before(i, j) == xs[i].importance < xs[j].importance
                           \/ (xs[i].importance = xs[j].importance /\ i < j)
        Rank(i) == Cardinality({j \in 1..Len(xs) : Before(j, i)}) + 1
    IN  [r \in 1..Len(xs) |-> xs[CHOOSE i \in 1..Len(xs) : Rank(i) = r]]

\* scored.sort(key=importance, reverse=True): stable, highest first.
sort(xs) ==
    LET Before(i, j) == xs[i].importance > xs[j].importance
                           \/ (xs[i].importance = xs[j].importance /\ i < j)
        Rank(i) == Cardinality({j \in 1..Len(xs) : Before(j, i)}) + 1
    IN  [r \in 1..Len(xs) |-> xs[CHOOSE i \in 1..Len(xs) : Rank(i) = r]]

_score_objects(posts, mapping, ups) ==
    IF Occurrences(posts, mapping) = <<>> THEN <<>>
    ELSE Take(sort(Scored(posts, mapping, ups)), _TOP_OBJECTS)

\* The canonical names whose importance sum lies on a rounding tie.
TieNames(posts, mapping) ==
    LET down == Scored(posts, mapping, {})
        up == Scored(posts, mapping, {down[k].name : k \in 1..Len(down)})
    IN  {down[k].name : k \in {i \in 1..Len(down) : down[i].importance # up[i].importance}}

\* _AggregationVLMResponse: the defaults, a response with every field set,
\* and two responses with some of the atmosphere fields set.
PersonaResponses ==
    {[persona_summary |-> "", style |-> "", window_view |-> "", time_of_day |-> ""],
     [persona_summary |-> "persona", style |-> "boho", window_view |-> "city",
      time_of_day |-> "dusk"],
     [persona_summary |-> "persona", style |-> "boho", window_view |-> "",
      time_of_day |-> ""],
     [persona_summary |-> "", style |-> "", window_view |-> "city",
      time_of_day |-> "dusk"]}

\* SceneInfo without its location type, which the atmosphere does not hold.
SceneInfo(mood, lighting, color_palette) ==
    [mood |-> mood, lighting |-> lighting, color_palette |-> color_palette]

most_common_uncounted(items, n) ==
    LET first == {i \in 1..Len(items) : \A j \in 1..(i - 1) : items[j] # items[i]}
        rank(i) == 1 + Cardinality({j \in first : j < i})
        kept == IF Cardinality(first) < n THEN Cardinality(first) ELSE n
    IN  [r \in 1..kept |-> items[CHOOSE i \in first : rank(i) = r]]

\* Counter.most_common(n) over the items counted in order: the distinct items
\* by falling count, items of equal count in the order they were first counted.
most_common(items, n) ==
    LET first == {i \in 1..Len(items) : \A j \in 1..(i - 1) : items[j] # items[i]}
        count(i) == Cardinality({j \in 1..Len(items) : items[j] = items[i]})
        rank(i) == 1 + Cardinality({j \in first : \/ count(j) > count(i)
                                                  \/ count(j) = count(i) /\ j < i})
        kept == IF Cardinality(first) < n THEN Cardinality(first) ELSE n
    IN  [r \in 1..kept |-> items[CHOOSE i \in first : rank(i) = r]]

\* RoomAtmosphere with the three derived fields and the defaults of the others.
_derive_atmosphere_deterministic(scene_list) ==
    LET RECURSIVE Chain(_, _)
        Chain(field, k) ==
            IF k = 0 THEN <<>> ELSE Chain(field, k - 1) \o field[k]
        n == Len(scene_list)
        moods == Chain([k \in 1..n |-> scene_list[k].mood], n)
        lightings == Chain([k \in 1..n |-> IF scene_list[k].lighting # ""
                                           THEN <<scene_list[k].lighting>> ELSE <<>>], n)
        colors == Chain([k \in 1..n |-> scene_list[k].color_palette], n)
    IN  [dominant_mood |-> IF moods # <<>> THEN most_common(moods, 1)[1] ELSE "warm",
         dominant_lighting |-> IF lightings # <<>> THEN most_common(lightings, 1)[1]
                               ELSE "natural",
         color_palette |-> most_common(colors, 5),
         style |-> "", window_view |-> "", room_size |-> "medium",
         time_of_day |-> "afternoon"]

merge_vlm_output_as_answered(room, response) ==
    [room EXCEPT !.style = response.style,
                 !.window_view = response.window_view,
                 !.time_of_day = response.time_of_day]

\* The three assignments that merge the persona response into the atmosphere.
merge_vlm_output(room, response) ==
    [room EXCEPT !.style = IF response.style # "" THEN response.style ELSE room.style,
                 !.window_view = response.window_view,
                 !.time_of_day = IF response.time_of_day # "" THEN response.time_of_day
                                 ELSE room.time_of_day]

\* The first three analyses of a profile with a guitar, an acoustic guitar and
\* a plant; aggregate_analyses is run on every prefix.
ThreePosts ==
    Indexed(<<PostAnalysisWithMeta(0, <<DetectedObject("guitar", "center")>>, 5, 2),
              PostAnalysisWithMeta(0, <<DetectedObject("acoustic_guitar", "background")>>, 1, 0),
              PostAnalysisWithMeta(0, <<DetectedObject("plant", "minor")>>, 1, 2)>>)

InitAggregate ==
    /\ InitGenIdle /\ InitLayoutIdle /\ InitRefsIdle /\ InitViewIdle /\ InitSceneIdle
    /\ InitAnalyzeIdle
    /\ \E n \in 0..3 :
          /\ analyses = SubSeq(ThreePosts, 1, n)
          /\ scenes = SubSeq(<<SceneInfo(<<"cozy">>, "warm", <<"beige">>),
                               SceneInfo(<<"calm", "cozy">>, "natural", <<"white", "beige">>),
                               SceneInfo(<<>>, "", <<>>)>>, 1, n)
    /\ agg_pc = "start"
    /\ agg_error = ""
    /\ agg_calls = <<>>
    /\ dedup_response = <<>>
    /\ dedup_map = <<>>
    /\ scored_objects = <<>>
    /\ round_up = {}
    /\ vlm_response = <<>>
    /\ atmosphere = <<>>

\* aggregate_analyses from the return of _deduplicate_objects to the persona call.
ScoreAndAskPersona(mapping) ==
    /\ dedup_map' = mapping
    /\ round_up' \in SUBSET TieNames(analyses, mapping)
    /\ scored_objects' = _score_objects(analyses, mapping, round_up')
    /\ atmosphere' = <<_derive_atmosphere_deterministic(scenes)>>
    /\ agg_calls' = Append(agg_calls, "persona")
    /\ agg_pc' = "persona_call"

\* aggregate_analyses up to its first model call.
AggregateStart ==
    /\ agg_pc = "start"
    /\ IF Cardinality(_collect_object_names(analyses)) <= 1
       THEN ScoreAndAskPersona([n \in _collect_object_names(analyses) |-> n])
       ELSE /\ agg_calls' = Append(agg_calls, "dedup")
            /\ agg_pc' = "dedup_call"
            /\ UNCHANGED <<dedup_map, scored_objects, round_up, atmosphere>>
    /\ UNCHANGED <<analyses, agg_error, dedup_response, vlm_response, scenes>>
    /\ UNCHANGED <<gen_vars, layout_vars, refs_vars, view_vars, scene_vars, analyze_vars>>

\* The dedup call raises or answers text that does not validate, answers
\* nothing (the identity mapping), or answers groups.
DedupResponse ==
    /\ agg_pc = "dedup_call"
    /\ \/ /\ agg_pc' = "raised"
          /\ agg_error' \in {"APIError", "ValidationError"}
          /\ UNCHANGED <<agg_calls, dedup_response, dedup_map, scored_objects, round_up,
                         atmosphere>>
       \/ /\ ScoreAndAskPersona([n \in _collect_object_names(analyses) |-> n])
          /\ UNCHANGED <<agg_error, dedup_response>>
       \/ \E groups \in SeqsUpTo(DedupGroups, MaxGroups) :
             /\ dedup_response' = groups
             /\ ScoreAndAskPersona(ParsedMapping(_collect_object_names(analyses), groups))
             /\ UNCHANGED agg_error
    /\ UNCHANGED <<analyses, vlm_response, scenes>>
    /\ UNCHANGED <<gen_vars, layout_vars, refs_vars, view_vars, scene_vars, analyze_vars>>

\* The persona call raises, or answers nothing (the defaults) or a response,
\* and aggregate_analyses returns the profile.
PersonaResponse ==
    /\ agg_pc = "persona_call"
    /\ \/ /\ agg_pc' = "raised"
          /\ agg_error' \in {"APIError", "ValidationError"}
          /\ UNCHANGED <<vlm_response, atmosphere>>
       \/ /\ agg_pc' = "returned"
          /\ \E response \in PersonaResponses :
                /\ vlm_response' = <<response>>
                /\ atmosphere' = <<merge_vlm_output(atmosphere[1], response)>>
          /\ UNCHANGED agg_error
    /\ UNCHANGED <<analyses, agg_calls, dedup_response, dedup_map, scored_objects,
                   round_up, scenes>>
    /\ UNCHANGED <<gen_vars, layout_vars, refs_vars, view_vars, scene_vars, analyze_vars>>

NextAggregate == AggregateStart \/ DedupResponse \/ PersonaResponse

SpecAggregate == InitAggregate /\ [][NextAggregate]_vars

\* The inputs of _score_objects: a list of analyses, and a mapping without
\* entries or one that merges acoustic_guitar into guitar and guitar into plant.
InitScore ==
    /\ InitGenIdle /\ InitLayoutIdle /\ InitRefsIdle /\ InitViewIdle /\ InitSceneIdle
    /\ InitAnalyzeIdle
    /\ (analyses \in AnalysisLists \/ analyses \in GuitarFixtures)
    /\ dedup_map \in {<<>>,
                      ParsedMapping({}, <<[canonical |-> "guitar",
                                           variants |-> {"acoustic_guitar"}],
                                          [canonical |-> "plant", variants |-> {"guitar"}]>>)}
    /\ agg_pc = "score"
    /\ agg_error = ""
    /\ agg_calls = <<>>
    /\ dedup_response = <<>>
    /\ scored_objects = <<>>
    /\ round_up = {}
    /\ vlm_response = <<>>
    /\ scenes = [i \in 1..Len(analyses) |-> SceneInfo(<<>>, "", <<>>)]
    /\ atmosphere = <<>>

\* _score_objects applied to the inputs.
ScoreObjects ==
    /\ agg_pc = "score"
    /\ round_up' \in SUBSET TieNames(analyses, dedup_map)
    /\ scored_objects' = _score_objects(analyses, dedup_map, round_up')
    /\ agg_pc' = "scored"
    /\ UNCHANGED <<analyses, agg_error, agg_calls, dedup_response, dedup_map, vlm_response,
                   scenes, atmosphere>>
    /\ UNCHANGED <<gen_vars, layout_vars, refs_vars, view_vars, scene_vars, analyze_vars>>

SpecScore == InitScore /\ [][ScoreObjects]_vars

\* The scenes of the analyses: the defaults, and scenes with one or more mood
\* tags, a lighting value or none, and palettes of up to six colors, one of
\* them naming a color twice.
SceneSamples ==
    {SceneInfo(<<>>, "", <<>>),
     SceneInfo(<<"cozy">>, "warm", <<"beige">>),
     SceneInfo(<<"calm", "cozy">>, "natural", <<"white", "beige">>),
     SceneInfo(<<"calm">>, "", <<"white", "green", "blue", "red", "black", "grey">>),
     SceneInfo(<<>>, "warm", <<"grey", "grey", "beige">>),
     SceneInfo(<<"energetic">>, "neon", <<"red", "black">>),
     SceneInfo(<<"cozy", "calm">>, "natural", <<"green", "white", "beige", "brown">>),
     SceneInfo(<<"calm", "calm">>, "warm", <<"blue">>)}

\* The inputs of _derive_atmosphere_deterministic: the scenes of a list of analyses.
InitAtmosphere ==
    /\ InitGenIdle /\ InitLayoutIdle /\ InitRefsIdle /\ InitViewIdle /\ InitSceneIdle
    /\ InitAnalyzeIdle
    /\ scenes \in SeqsUpTo(SceneSamples, MaxPosts)
    /\ analyses = [i \in 1..Len(scenes) |-> PostAnalysisWithMeta(i, <<>>, 3, 0)]
    /\ agg_pc = "derive"
    /\ agg_error = ""
    /\ agg_calls = <<>>
    /\ dedup_response = <<>>
    /\ dedup_map = <<>>
    /\ scored_objects = <<>>
    /\ round_up = {}
    /\ vlm_response = <<>>
    /\ atmosphere = <<>>

\* _derive_atmosphere_deterministic applied to the inputs.
DeriveAtmosphere ==
    /\ agg_pc = "derive"
    /\ atmosphere' = <<_derive_atmosphere_deterministic(scenes)>>
    /\ agg_pc' = "derived"
    /\ UNCHANGED <<analyses, agg_error, agg_calls, dedup_response, dedup_map,
                   scored_objects, round_up, vlm_response, scenes>>
    /\ UNCHANGED <<gen_vars, layout_vars, refs_vars, view_vars, scene_vars, analyze_vars>>

SpecAtmosphere == InitAtmosphere /\ [][DeriveAtmosphere]_vars

(***************************************************************************)
(* Stage 3: _build_reference_images_for_view                               *)
(***************************************************************************)

_MAX_REFERENCE_IMAGES == 14

\* str.lower on the object names used here.
lower(name) ==
    IF name = "Guitar" THEN "guitar" ELSE IF name = "Cat" THEN "cat" ELSE name

\* profile.key_objects: at most _TOP_OBJECTS entries with distinct names, each
\* with the URL of a post image or none.
RefObjectLists ==
    {s \in SeqsUpTo([name : {"guitar", "Guitar", "plant"},
                     source_image_url : {"", "img1", "img2"}], MaxObjects) :
        \A i, j \in 1..Len(s) : i # j => s[i].name # s[j].name}

AddReference_no_dedup(acc, obj) ==
    IF acc.stopped \/ lower(obj.name) \notin acc.lower_names \/ obj.source_image_url = ""
    THEN acc
    ELSE [acc EXCEPT !.urls = Append(acc.urls, obj.source_image_url),
                     !.mapping = acc.mapping @@ (Len(acc.urls) + 1 :> <<obj.name>>)]

\* One iteration of the loop over profile.key_objects; the mapping entry is
\* the list of the names the code joins with ", ".
AddReference(acc, obj) ==
    IF acc.stopped \/ lower(obj.name) \notin acc.lower_names \/ obj.source_image_url = ""
    THEN acc
    ELSE IF obj.source_image_url \in DOMAIN acc.url_to_index
    THEN LET idx == acc.url_to_index[obj.source_image_url]
         IN  [acc EXCEPT !.mapping[idx] = Append(@, obj.name)]
    ELSE IF Len(acc.urls) >= _MAX_REFERENCE_IMAGES
    THEN [acc EXCEPT !.stopped = TRUE]
    ELSE LET idx == Len(acc.urls) + 1
         IN  [acc EXCEPT !.urls = Append(acc.urls, obj.source_image_url),
                         !.url_to_index = acc.url_to_index @@ (obj.source_image_url :> idx),
                         !.mapping = acc.mapping @@ (idx :> <<obj.name>>)]

RECURSIVE _build_reference_images_for_view(_, _)
_build_reference_images_for_view(objects, names) ==
    IF objects = <<>>
    THEN [lower_names |-> {lower(names[i]) : i \in 1..Len(names)}, urls |-> <<>>,
          url_to_index |-> <<>>, mapping |-> <<>>, stopped |-> FALSE]
    ELSE AddReference(_build_reference_images_for_view(
                          SubSeq(objects, 1, Len(objects) - 1), names),
                      objects[Len(objects)])

InitRefs ==
    /\ InitGenIdle /\ InitLayoutIdle /\ InitAggIdle /\ InitViewIdle /\ InitSceneIdle
    /\ InitAnalyzeIdle
    /\ ref_objects \in RefObjectLists
    /\ visible_names \in SeqsUpTo({"guitar", "Guitar", "plant"}, MaxListLen)
    /\ reference_image_urls = <<>>
    /\ reference_image_mapping = <<>>
    /\ rpc = "build"

BuildReferenceImages ==
    /\ rpc = "build"
    /\ LET built == _build_reference_images_for_view(ref_objects, visible_names)
       IN  /\ reference_image_urls' = built.urls
           /\ reference_image_mapping' = built.mapping
    /\ rpc' = "built"
    /\ UNCHANGED <<ref_objects, visible_names>>
    /\ UNCHANGED <<gen_vars, layout_vars, agg_vars, view_vars, scene_vars, analyze_vars>>

SpecRefs == InitRefs /\ [][BuildReferenceImages]_vars

(***************************************************************************)
(* Stage 3: _ViewLayout and _placement_matches_objects.  A string is a     *)
(* sequence of symbols: blocks of letters ("cat", "Cat", "alog", so that   *)
(* <<"cat", "alog">> is the word catalog), the separators " ", "_", "-",   *)
(* and ":".                                                                *)
(***************************************************************************)

MaxPlacementLen == 3

MaxNameLen == 2

\* "guitar: near the window" and "catalog: tall bookshelf"
GuitarNearTheWindow == <<"guitar", ":", " ", "near", " ", "the", " ", "window">>

CatalogTallBookshelf == <<"cat", "alog", ":", " ", "tall", " ", "bookshelf">>

Placements ==
    SeqsUpTo({"cat", "Cat", "alog", " ", "_", ":"}, MaxPlacementLen)
        \cup {GuitarNearTheWindow, CatalogTallBookshelf,
               <<"cat", "-", "alog", ":">>, <<"-", "Cat", ":", "alog">>}

\* Lists of object names: none, one name, or "alog" followed by one name.
ObjectNameLists ==
    LET names == SeqsUpTo({"cat", "Cat", "alog", "_"}, MaxNameLen) \cup {<<"guitar">>}
    IN  {<<>>} \cup {<<n>> : n \in names} \cup {<<(<<"alog">>), n>> : n \in names}

\* placement.split(":")[0]
BeforeColon(s) ==
    IF \E i \in 1..Len(s) : s[i] = ":"
    THEN SubSeq(s, 1, (CHOOSE i \in 1..Len(s) :
                          s[i] = ":" /\ \A j \in 1..(i - 1) : s[j] # ":") - 1)
    ELSE s

\* str.strip()
RECURSIVE strip(_)
strip(s) ==
    IF s # <<>> /\ Head(s) = " " THEN strip(Tail(s))
    ELSE IF s # <<>> /\ s[Len(s)] = " " THEN strip(SubSeq(s, 1, Len(s) - 1))
    ELSE s

\* str.lower()
LowerText(s) == [i \in 1..Len(s) |-> lower(s[i])]

_tokenize_symbols(s) == {<<s[i]>> : i \in {k \in 1..Len(s) : s[k] \notin {" ", "_", "-"}}}

\* re.split(r"[\s_\-]+", s) without the empty pieces, as the set the caller
\* makes of it: scan the text, closing a token at every separator.
_tokenize(s) ==
    LET RECURSIVE Scan(_, _, _)
        Scan(rest, token, tokens) ==
            IF rest = <<>> THEN (IF token = <<>> THEN tokens ELSE tokens \cup {token})
            ELSE IF Head(rest) \in {" ", "_", "-"}
            THEN Scan(Tail(rest), <<>>, IF token = <<>> THEN tokens ELSE tokens \cup {token})
            ELSE Scan(Tail(rest), Append(token, Head(rest)), tokens)
    IN  Scan(s, <<>>, {})

_placement_matches_objects(placement, names) ==
    LET prefix == LowerText(strip(BeforeColon(placement)))
        prefix_tokens == _tokenize(prefix)
        Matches(name) ==
            LET name_lower == LowerText(name)
                name_tokens == _tokenize(name_lower)
                overlap == prefix_tokens \cap name_tokens
                shorter == IF Cardinality(prefix_tokens) < Cardinality(name_tokens)
                           THEN Cardinality(prefix_tokens) ELSE Cardinality(name_tokens)
            IN  \/ prefix = name_lower
                \/ shorter > 0 /\ 2 * Cardinality(overlap) > shorter
    IN  \E k \in 1..Len(names) : Matches(names[k])

InitView ==
    /\ InitGenIdle /\ InitLayoutIdle /\ InitAggIdle /\ InitRefsIdle /\ InitSceneIdle
    /\ InitAnalyzeIdle
    /\ all_placements \in {<<p>> : p \in Placements}
    /\ object_names \in ObjectNameLists
    /\ object_placements = <<>>
    /\ mpc = "filter"

\* _ViewLayout.__init__
ViewLayout ==
    /\ mpc = "filter"
    /\ object_placements' =
          SelectSeq(all_placements, LAMBDA p : _placement_matches_objects(p, object_names))
    /\ mpc' = "filtered"
    /\ UNCHANGED <<all_placements, object_names>>
    /\ UNCHANGED <<gen_vars, layout_vars, agg_vars, refs_vars, scene_vars, analyze_vars>>

SpecView == InitView /\ [][ViewLayout]_vars

(***************************************************************************)
(* Stage 5: run_pipeline from the end of Stage 4, convert_to_3d_scene      *)
(***************************************************************************)

POLL_INTERVAL_SECONDS == 5

POLL_TIMEOUT_SECONDS == 600

\* Longest time one poll request takes to answer, in poll intervals.
MaxLatency == 1

\* The times a poll request takes to answer: time is counted in steps of the
\* poll interval.
Latencies == {k * POLL_INTERVAL_SECONDS : k \in 0..MaxLatency}

DEFAULT_TEXT_PROMPT == <<"A cozy room interior, explorable, with depth">>

b64decode(s) ==
    IF s = "fwd_b64" THEN "fwd_png" ELSE IF s = "bwd_b64" THEN "bwd_png" ELSE ""

WorldLabsError(message) == [type |-> "WorldLabsError", message |-> message]

\* raise_for_status and the transport errors of httpx.
HttpFailures ==
    { [type |-> "HTTPStatusError", message |-> <<"503 Service Unavailable">>],
      [type |-> "RequestError", message |-> <<"connection reset">>] }

\* The failures of a request whose answer is validated: those of httpx, and
\* model_validate on a body that does not fit the response model.
ResponseFailures ==
    HttpFailures \cup {[type |-> "ValidationError", message |-> <<"validation error">>]}

\* The except clauses of convert_to_3d_scene, in their order.
WrapError_runtime_escapes(exc) ==
    IF exc.type = "WorldLabsError" THEN exc
    ELSE IF exc.type \in {"HTTPStatusError", "RequestError"}
    THEN WorldLabsError(<<"HTTP error communicating with World Labs: ">> \o exc.message)
    ELSE IF exc.type = "TimeoutError" THEN WorldLabsError(exc.message)
    ELSE exc

WrapError_one_text(exc) ==
    IF exc.type = "WorldLabsError" THEN exc
    ELSE IF exc.type \in {"HTTPStatusError", "RequestError", "TimeoutError", "RuntimeError"}
    THEN WorldLabsError(<<"World Labs conversion failed">>)
    ELSE exc

WrapError(exc) ==
    IF exc.type = "WorldLabsError" THEN exc
    ELSE IF exc.type \in {"HTTPStatusError", "RequestError"}
    THEN WorldLabsError(<<"HTTP error communicating with World Labs: ">> \o exc.message)
    ELSE IF exc.type = "TimeoutError" THEN WorldLabsError(exc.message)
    ELSE IF exc.type = "RuntimeError" THEN WorldLabsError(exc.message)
    ELSE exc

Stage5Catches_worldlabs_only(exc) == exc.type = "WorldLabsError"

\* except WorldLabsError / except Exception of run_pipeline; each exception
\* class of the model derives from Exception.
Stage5Catches(exc) ==
    \/ exc.type = "WorldLabsError"
    \/ exc.type \in {"HTTPStatusError", "RequestError", "TimeoutError", "RuntimeError",
                     "ValidationError", "ValueError"}

has_any_image == final_image.forward # "" \/ final_image.backward # ""

has_both_images == final_image.forward # "" /\ final_image.backward # ""

ConvertToSceneRequest_forward_only(prompt) ==
    IF has_both_images
    THEN [image_bytes_list |-> <<b64decode(final_image.forward),
                                 b64decode(final_image.backward)>>,
          image_bytes |-> "",
          text_prompt |-> prompt]
    ELSE [image_bytes_list |-> <<>>,
          image_bytes |-> b64decode(final_image.forward),
          text_prompt |-> prompt]

ConvertToSceneRequest(prompt) ==
    IF has_both_images
    THEN [image_bytes_list |-> <<b64decode(final_image.forward),
                                 b64decode(final_image.backward)>>,
          image_bytes |-> "",
          text_prompt |-> prompt]
    ELSE [image_bytes_list |-> <<>>,
          image_bytes |-> b64decode(IF final_image.forward # ""
                                    THEN final_image.forward
                                    ELSE final_image.backward),
          text_prompt |-> prompt]

\* The end of the try statement of Stage 5, the debug output and the return.
\* exc is the exception raised inside the try, NoError when there was none;
\* res is the value convert_to_3d_scene returned.
Stage5Ends(exc, res) ==
    /\ stage5_error' = exc
    /\ IF exc = NoError \/ Stage5Catches(exc)
       THEN /\ scene_result' = (IF exc = NoError THEN res ELSE <<>>)
            /\ returned' = <<[result |-> final_image,
                              profile |-> profile,
                              scene_result |-> scene_result']>>
            /\ ppc' = "returned"
       ELSE /\ scene_result' = <<>>
            /\ returned' = <<>>
            /\ ppc' = "raised"

\* An exception raised inside the try of convert_to_3d_scene.
ConvertRaises(exc) ==
    /\ cpc' = "raised"
    /\ convert_cause' = exc
    /\ convert_error' = WrapError(exc)
    /\ Stage5Ends(WrapError(exc), <<>>)

UploadTask(image_bytes, filename) ==
    [image_bytes |-> image_bytes, filename |-> filename, pc |-> "prepare",
     media_asset_id |-> "", finished |-> 0]

\* convert_to_3d_scene up to its first await.
ConvertStart(req) ==
    LET has_multi == Len(req.image_bytes_list) >= 2
        has_single == req.image_bytes # ""
    IN  /\ request' = <<req>>
        /\ IF ~has_multi /\ ~has_single
           THEN /\ cpc' = "raised"
                /\ convert_error' = [type |-> "ValueError", message |-> <<"Provide image_bytes">>]
                /\ Stage5Ends(convert_error', <<>>)
                /\ UNCHANGED convert_cause
                /\ UNCHANGED <<upload, called>>
           ELSE /\ cpc' = "uploading"
                /\ upload' =
                     IF has_multi
                     THEN [i \in 1..2 |->
                             UploadTask(req.image_bytes_list[i],
                                        "instaroom-" \o <<"fwd", "bwd">>[i] \o ".png")]
                     ELSE <<UploadTask(req.image_bytes, "instaroom-uuid.png")>>
                /\ called' = {"prepare_upload"}
                /\ ppc' = "converting"
                /\ UNCHANGED <<stage5_error, scene_result, returned, convert_error,
                               convert_cause>>
        /\ UNCHANGED <<submitted, status, now, deadline, fetched_world>>

Stage5_always_converts(prompt) ==
    /\ text_prompt_3d' = prompt
    /\ IF has_any_image
       THEN IF ~worldlabs_key
            THEN /\ Stage5Ends([type |-> "RuntimeError",
                             message |-> <<"WORLDLABS_API_KEY environment variable is not set">>],
                            <<>>)
                 /\ UNCHANGED convert_vars
            ELSE ConvertStart(ConvertToSceneRequest(prompt))
       ELSE Stage5Ends(NoError, <<>>) /\ UNCHANGED convert_vars
    /\ UNCHANGED <<run_3d_conversion, profile, final_image, worldlabs_key,
                   prompt_response>>
    /\ UNCHANGED <<gen_vars, layout_vars, agg_vars, refs_vars, view_vars, analyze_vars>>

\* run_pipeline from the assignment of text_prompt_3d to the call of
\* convert_to_3d_scene, or to the return when Stage 5 does not convert.
Stage5(prompt) ==
    /\ text_prompt_3d' = prompt
    /\ IF run_3d_conversion /\ has_any_image
       THEN IF ~worldlabs_key
            THEN /\ Stage5Ends([type |-> "RuntimeError",
                             message |-> <<"WORLDLABS_API_KEY environment variable is not set">>],
                            <<>>)
                 /\ UNCHANGED convert_vars
            ELSE ConvertStart(ConvertToSceneRequest(prompt))
       ELSE Stage5Ends(NoError, <<>>) /\ UNCHANGED convert_vars
    /\ UNCHANGED <<run_3d_conversion, profile, final_image, worldlabs_key,
                   prompt_response>>
    /\ UNCHANGED <<gen_vars, layout_vars, agg_vars, refs_vars, view_vars, analyze_vars>>

\* The state of run_pipeline that no step of Stage 5 changes.
PipelineInputsUnchanged ==
    /\ UNCHANGED <<run_3d_conversion, profile, final_image, worldlabs_key,
                   text_prompt_3d, prompt_response>>
    /\ UNCHANGED <<gen_vars, layout_vars, agg_vars, refs_vars, view_vars, analyze_vars>>

\* Stage 4 has returned: the spatial prompt is asked for when there is an image.
AfterStage4 ==
    /\ ppc = "stage4_done"
    /\ IF has_any_image
       THEN /\ ppc' = "prompt_call"
            /\ UNCHANGED <<text_prompt_3d, stage5_error, scene_result, returned>>
            /\ UNCHANGED <<run_3d_conversion, profile, final_image, worldlabs_key,
                           prompt_response>>
            /\ UNCHANGED convert_vars
            /\ UNCHANGED <<gen_vars, layout_vars, agg_vars, refs_vars, view_vars, analyze_vars>>
       ELSE Stage5(None)

MaxRawLen == 4

\* The outcomes of the generate_content call of generate_3d_prompt: an
\* exception (of get_gemini_client, of the call or of response.text), or a
\* response whose text is None or "" (both <<>>), blank, or a text with or
\* without blanks around it; a text is made of blanks and two words.
PromptOutcomes ==
    {[kind |-> "exception", text |-> <<>>]}
        \cup {[kind |-> "text", text |-> t] : t \in SeqsUpTo({" ", "room", "window"}, MaxRawLen)}

generate_3d_prompt_unstripped(outcome) ==
    IF outcome.kind = "exception" THEN DEFAULT_TEXT_PROMPT
    ELSE IF outcome.text = <<>> \/ strip(outcome.text) = <<>> THEN DEFAULT_TEXT_PROMPT
    ELSE outcome.text

\* generate_3d_prompt: the whole body is inside try/except Exception.
generate_3d_prompt(outcome) ==
    IF outcome.kind = "exception" THEN DEFAULT_TEXT_PROMPT
    ELSE LET raw == outcome.text
         IN  IF raw = <<>> \/ strip(raw) = <<>> THEN DEFAULT_TEXT_PROMPT
             ELSE strip(raw)

\* The model call of generate_3d_prompt ends with the outcome
\* prompt_response and run_pipeline goes on with the prompt returned.
SpatialPromptResponse ==
    /\ ppc = "prompt_call"
    /\ Stage5(generate_3d_prompt(prompt_response))

AssetIds == {"asset1", "asset2"}

\* One image of a multi-image prompt: the view angle and the uploaded asset.
MultiImagePromptItem(azimuth, media_asset_id) ==
    [azimuth |-> azimuth, media_asset_id |-> media_asset_id]

_submit_generation(req, media_asset_id, media_asset_ids) ==
    IF Len(media_asset_ids) >= 2
    THEN [type |-> "multi-image",
          multi_image_prompt |->
              << MultiImagePromptItem(0, media_asset_ids[1]),
                 MultiImagePromptItem(180, media_asset_ids[2]) >>,
          image_prompt |-> <<>>,
          text_prompt |-> req.text_prompt]
    ELSE IF media_asset_id # ""
    THEN [type |-> "image",
          multi_image_prompt |-> <<>>,
          image_prompt |-> <<media_asset_id>>,
          text_prompt |-> req.text_prompt]
    ELSE [type |-> "text",
          multi_image_prompt |-> <<>>,
          image_prompt |-> <<>>,
          text_prompt |-> req.text_prompt]

\* The answer to POST /media-assets:prepare_upload of task i.
PrepareUploadResponse(i) ==
    /\ cpc = "uploading"
    /\ upload[i].pc = "prepare"
    /\ \/ \E exc \in ResponseFailures :
            /\ upload' = [upload EXCEPT ![i].pc = "failed"]
            /\ ConvertRaises(exc)
            /\ UNCHANGED called
       \/ \E id \in AssetIds \ {upload[j].media_asset_id : j \in 1..Len(upload)} :
            /\ upload' = [upload EXCEPT ![i].pc = "put", ![i].media_asset_id = id]
            /\ called' = called \cup {"put"}
            /\ UNCHANGED <<cpc, convert_error, convert_cause, ppc, stage5_error,
                           scene_result, returned>>
    /\ UNCHANGED <<request, submitted, status, now, deadline, fetched_world>>
    /\ PipelineInputsUnchanged

\* The position of the next task to finish among the finished ones.
NextFinished(tasks) ==
    1 + Cardinality({j \in 1..Len(tasks) : tasks[j].pc = "done"})

gather_completion_order(tasks) ==
    [k \in 1..Len(tasks) |->
        (CHOOSE j \in 1..Len(tasks) : tasks[j].finished = k)]

\* asyncio.gather returns the results in the order of the awaitables.
gather(tasks) == [j \in 1..Len(tasks) |-> j]

\* The answer to the PUT of task i; the last upload to finish lets gather
\* return and _submit_generation post the request.
PutResponse(i) ==
    /\ cpc = "uploading"
    /\ upload[i].pc = "put"
    /\ \/ \E exc \in HttpFailures :
            /\ upload' = [upload EXCEPT ![i].pc = "failed"]
            /\ ConvertRaises(exc)
            /\ UNCHANGED <<submitted, called>>
       \/ /\ upload' = [upload EXCEPT ![i].pc = "done",
                                      ![i].finished = NextFinished(upload)]
          /\ IF \A j \in 1..Len(upload) : upload'[j].pc = "done"
             THEN LET ids == [k \in 1..Len(upload) |->
                                upload'[gather(upload')[k]].media_asset_id]
                  IN  /\ submitted' =
                           << IF Len(request[1].image_bytes_list) >= 2
                              THEN _submit_generation(request[1], "", ids)
                              ELSE _submit_generation(request[1], ids[1], <<>>) >>
                      /\ cpc' = "submitted"
                      /\ called' = called \cup {"generate"}
             ELSE UNCHANGED <<submitted, cpc, called>>
          /\ UNCHANGED <<convert_error, convert_cause, ppc, stage5_error,
                         scene_result, returned>>
    /\ UNCHANGED <<request, status, now, deadline, fetched_world>>
    /\ PipelineInputsUnchanged

\* The answer to POST /worlds:generate; _poll_operation sets its deadline and
\* sends the first poll.
SubmitResponse ==
    /\ cpc = "submitted"
    /\ \/ \E exc \in ResponseFailures :
            /\ ConvertRaises(exc)
            /\ UNCHANGED <<deadline, called>>
       \/ /\ deadline' = now + POLL_TIMEOUT_SECONDS
          /\ cpc' = "polling"
          /\ called' = called \cup {"operations"}
          /\ UNCHANGED <<convert_error, convert_cause, ppc, stage5_error,
                         scene_result, returned>>
    /\ UNCHANGED <<request, upload, submitted, status, now, fetched_world>>
    /\ PipelineInputsUnchanged

\* The RuntimeError of a completed operation with an error payload; the
\* separator of the code and the message is written " - ".
GenerationFailed(payload) ==
    [type |-> "RuntimeError",
     message |-> <<"World generation failed: ", payload.code, " - ", payload.message>>]

PollTimedOut ==
    [type |-> "TimeoutError", message |-> <<"World generation timed out after 600.0s">>]

OperationStatuses ==
    [done : BOOLEAN,
     error : { <<>>,
               <<[code |-> "INTERNAL", message |-> "generation crashed"]>>,
               <<[code |-> "None", message |-> "None"]>> },
     response : {<<>>, <<"world1">>}]

\* The answer to GET /operations/{id}, after latency seconds.
PollResponse ==
    /\ cpc = "polling"
    /\ \E latency \in Latencies :
         /\ now' = now + latency
         /\ \/ \E exc \in ResponseFailures :
                 /\ ConvertRaises(exc)
                 /\ UNCHANGED <<status, called>>
            \/ \E st \in OperationStatuses :
                 /\ status' = <<st>>
                 /\ IF st.done
                    THEN IF st.error # <<>>
                         THEN /\ ConvertRaises(GenerationFailed(st.error[1]))
                              /\ UNCHANGED called
                         ELSE IF st.response = <<>>
                         THEN /\ ConvertRaises(
                                   [type |-> "RuntimeError",
                                    message |-> <<"Operation completed but response payload is missing">>])
                              /\ UNCHANGED called
                         ELSE /\ cpc' = "get_world"
                              /\ called' = called \cup {"worlds"}
                              /\ UNCHANGED <<convert_error, convert_cause, ppc,
                                             stage5_error, scene_result, returned>>
                    ELSE IF now' >= deadline
                         THEN /\ ConvertRaises(PollTimedOut)
                              /\ UNCHANGED called
                         ELSE /\ cpc' = "sleeping"
                              /\ UNCHANGED <<called, convert_error, convert_cause,
                                             ppc, stage5_error, scene_result,
                                             returned>>
    /\ UNCHANGED <<request, upload, submitted, deadline, fetched_world>>
    /\ PipelineInputsUnchanged

PollSleep_no_wait ==
    /\ cpc = "sleeping"
    /\ cpc' = "polling"
    /\ UNCHANGED <<fetched_world, request, upload, submitted, status, now, deadline, called,
                   convert_error, convert_cause, ppc, stage5_error, scene_result,
                   returned>>
    /\ PipelineInputsUnchanged

\* asyncio.sleep(POLL_INTERVAL_SECONDS) is over; the next poll is sent.
PollSleep ==
    /\ cpc = "sleeping"
    /\ now' = now + POLL_INTERVAL_SECONDS
    /\ cpc' = "polling"
    /\ UNCHANGED <<fetched_world, request, upload, submitted, status, deadline, called,
                   convert_error, convert_cause, ppc, stage5_error, scene_result,
                   returned>>
    /\ PipelineInputsUnchanged

SpzUrls == [full_res : {"", "full.spz"}, splat_500k : {"", "500k.spz"},
            splat_100k : {"", "100k.spz"}]

WorldAssets(spz_urls, collider_mesh_url, pano_url, thumbnail_url) ==
    [spz_urls |-> spz_urls, collider_mesh_url |-> collider_mesh_url,
     pano_url |-> pano_url, thumbnail_url |-> thumbnail_url]

\* World objects of GET /worlds/{id}; None is <<>> for a sub-model and "" for a
\* url.  The levels splats and spz_urls, and mesh and collider_mesh_url, are
\* one field each.
Worlds ==
    [world_id : {"world1"},
     assets : {<<>>, <<WorldAssets(<<>>, "mesh.glb", "pano.png", "thumb.png")>>}
              \cup {<<WorldAssets(<<u>>, "mesh.glb", "pano.png", "thumb.png")>> : u \in SpzUrls}
              \cup {<<WorldAssets(<<[full_res |-> "", splat_500k |-> "500k.spz",
                                    splat_100k |-> "100k.spz"]>>, "", "", "")>>,
                    <<WorldAssets(<<[full_res |-> "full.spz", splat_500k |-> "",
                                    splat_100k |-> "100k.spz"]>>, "", "pano.png", "")>>}]

splat_url_smallest_first(world) ==
    IF world.assets # <<>> /\ world.assets[1].spz_urls # <<>>
    THEN LET spz == world.assets[1].spz_urls[1]
         IN  IF spz.splat_100k # "" THEN spz.splat_100k
             ELSE IF spz.splat_500k # "" THEN spz.splat_500k
             ELSE spz.full_res
    ELSE ""

\* The splat url _build_result picks, "" when there is none.
splat_url(world) ==
    IF world.assets # <<>> /\ world.assets[1].spz_urls # <<>>
    THEN LET spz == world.assets[1].spz_urls[1]
         IN  IF spz.full_res # "" THEN spz.full_res
             ELSE IF spz.splat_500k # "" THEN spz.splat_500k
             ELSE spz.splat_100k
    ELSE ""

_build_result(world) ==
    [viewer_data |->
        [splat_url |-> splat_url(world),
         collider_url |-> IF world.assets # <<>> THEN world.assets[1].collider_mesh_url ELSE "",
         panorama_url |-> IF world.assets # <<>> THEN world.assets[1].pano_url ELSE ""],
     world_id |-> world.world_id,
     thumbnail_url |-> IF world.assets # <<>> THEN world.assets[1].thumbnail_url ELSE ""]

\* The answer to GET /worlds/{id}, _build_result and the return.
GetWorldResponse ==
    /\ cpc = "get_world"
    /\ \/ \E exc \in ResponseFailures :
            ConvertRaises(exc) /\ UNCHANGED fetched_world
       \/ \E world \in Worlds :
            /\ fetched_world' = <<world>>
            /\ IF splat_url(world) = ""
               THEN ConvertRaises(WorldLabsError(<<"World ", world.world_id,
                                                   " has no splat download URLs">>))
               ELSE /\ cpc' = "returned"
                    /\ Stage5Ends(NoError, <<_build_result(world)>>)
                    /\ UNCHANGED <<convert_error, convert_cause>>
    /\ UNCHANGED <<request, upload, submitted, status, now, deadline, called>>
    /\ PipelineInputsUnchanged

InitScene ==
    /\ InitGenIdle /\ InitLayoutIdle /\ InitAggIdle /\ InitRefsIdle /\ InitViewIdle
    /\ InitAnalyzeIdle
    /\ run_3d_conversion \in BOOLEAN
    /\ profile \in {"a reader", "a climber"}
    /\ final_image \in [forward : {"", "fwd_b64"}, backward : {"", "bwd_b64"}]
    /\ worldlabs_key \in BOOLEAN
    /\ ppc = "stage4_done"
    /\ text_prompt_3d = <<>>
    /\ prompt_response \in (IF has_any_image
                            THEN {[kind |-> "exception", text |-> <<>>],
                                  [kind |-> "text", text |-> <<" ", "room", " ">>]}
                            ELSE {NoResponse})
    /\ stage5_error = NoError
    /\ scene_result = <<>>
    /\ returned = <<>>
    /\ InitConvertIdle

\* run_pipeline at the call of generate_3d_prompt, Stage 5 switched off.
InitPrompt ==
    /\ InitGenIdle /\ InitLayoutIdle /\ InitAggIdle /\ InitRefsIdle /\ InitViewIdle
    /\ InitAnalyzeIdle
    /\ run_3d_conversion = FALSE
    /\ profile = "a reader"
    /\ final_image = [forward |-> "fwd_b64", backward |-> ""]
    /\ worldlabs_key = FALSE
    /\ ppc = "prompt_call"
    /\ text_prompt_3d = <<>>
    /\ prompt_response \in PromptOutcomes
    /\ stage5_error = NoError
    /\ scene_result = <<>>
    /\ returned = <<>>
    /\ InitConvertIdle

SpecPrompt == InitPrompt /\ [][SpatialPromptResponse]_vars

NextScene ==
    \/ AfterStage4
    \/ SpatialPromptResponse
    \/ \E i \in 1..Len(upload) : PrepareUploadResponse(i)
    \/ \E i \in 1..Len(upload) : PutResponse(i)
    \/ SubmitResponse
    \/ PollResponse
    \/ PollSleep
    \/ GetWorldResponse

SpecScene == InitScene /\ [][NextScene]_vars

\* Stage 4 from its start, or the rest of run_pipeline from the end of
\* Stage 4 with any pair of final images.
InitImages == Init \/ InitScene

SpecImages == InitImages /\ [][Next \/ NextScene]_vars

\* Every request of the conversion is answered or fails (the httpx clients
\* have timeouts of 60 and 120 seconds) and asyncio.sleep returns.
FairSpecScene == InitScene /\ [][NextScene]_vars /\ WF_vars(NextScene)

(***************************************************************************)
(* Stage 1: analyze_posts and the gate of run_pipeline before Stage 2      *)
(***************************************************************************)

_CONCURRENCY_LIMIT == 5

MaxCrawlPosts == 6

\* The tasks that hold the semaphore: they wait for the image downloads or
\* for the model.
InFlight == {i \in 1..Len(tpc) : tpc[i] = "running"}

\* The value of asyncio.Semaphore(_CONCURRENCY_LIMIT).
sem_value_six ==
    (_CONCURRENCY_LIMIT + 1) - Cardinality({i \in 1..Len(tpc) : tpc[i] = "running"})

sem_value == _CONCURRENCY_LIMIT - Cardinality(InFlight)

\* The results gather hands back that are neither an exception nor None, in
\* the order of the posts.
successes_reversed(results) ==
    LET RECURSIVE Collect(_)
        Collect(i) ==
            IF i > Len(results) THEN <<>>
            ELSE Collect(i + 1) \o
                 (IF results[i] = "ok"
                  THEN <<PostAnalysisWithMeta(i - 1, <<DetectedObject("guitar", "center")>>, 3, 0)>>
                  ELSE <<>>)
    IN  Collect(1)

successes(results) ==
    LET RECURSIVE Collect(_)
        Collect(i) ==
            IF i > Len(results) THEN <<>>
            ELSE (IF results[i] = "ok"
                  THEN <<PostAnalysisWithMeta(i - 1, <<DetectedObject("guitar", "center")>>, 3, 0)>>
                  ELSE <<>>)
                 \o Collect(i + 1)
    IN  Collect(1)

AnalyzeFrame ==
    /\ UNCHANGED <<crawl_posts, gemini_key>>
    /\ UNCHANGED <<gen_vars, layout_vars, refs_vars, view_vars, scene_vars>>

\* Task i enters "async with sem"; the semaphore wakes its waiters in the
\* order they arrived, which is the order of the posts.  A post without image
\* urls returns None at once and releases the semaphore.
Acquire(i) ==
    /\ apc = "gather"
    /\ tpc[i] = "waiting"
    /\ \A j \in 1..(i - 1) : tpc[j] # "waiting"
    /\ sem_value > 0
    /\ tpc' = [tpc EXCEPT ![i] = IF crawl_posts[i] THEN "running" ELSE "none"]
    /\ UNCHANGED <<apc, run_error, agg_vars>>
    /\ AnalyzeFrame

\* The awaits of task i inside the semaphore have been answered: without a
\* valid image the post is skipped; otherwise get_gemini_client() is called,
\* which raises without GOOGLE_API_KEY, and the model is asked: an exception
\* of the call or of model_validate_json, None for an empty text, or the
\* analysis.
_analyze_single_post(i) ==
    /\ apc = "gather"
    /\ tpc[i] = "running"
    /\ \E valid_images \in BOOLEAN, outcome \in {"exception", "none", "ok"} :
         tpc' = [tpc EXCEPT ![i] = IF ~valid_images THEN "none"
                                    ELSE IF ~gemini_key THEN "exception"
                                    ELSE outcome]
    /\ UNCHANGED <<apc, run_error, agg_vars>>
    /\ AnalyzeFrame

\* Every task is done: analyze_posts returns the successes and run_pipeline
\* raises ValueError without them or calls aggregate_analyses with them.
AnalyzeReturns ==
    /\ apc = "gather"
    /\ \A i \in 1..Len(tpc) : tpc[i] \in {"ok", "none", "exception"}
    /\ IF successes(tpc) = <<>>
       THEN /\ apc' = "raised"
            /\ run_error' = "ValueError"
            /\ UNCHANGED agg_vars
       ELSE /\ apc' = "stage2"
            /\ analyses' = successes(tpc)
            /\ scenes' = [i \in 1..Len(analyses') |-> SceneInfo(<<>>, "", <<>>)]
            /\ agg_pc' = "start"
            /\ UNCHANGED <<run_error, agg_error, agg_calls, dedup_response, dedup_map,
                           scored_objects, round_up, vlm_response, atmosphere>>
    /\ UNCHANGED tpc
    /\ AnalyzeFrame

InitAnalyze ==
    /\ InitGenIdle /\ InitLayoutIdle /\ InitAggIdle /\ InitRefsIdle /\ InitViewIdle
    /\ InitSceneIdle
    /\ crawl_posts \in UNION {[1..n -> BOOLEAN] : n \in 0..MaxCrawlPosts}
    /\ gemini_key \in BOOLEAN
    /\ tpc = [i \in 1..Len(crawl_posts) |-> "waiting"]
    /\ apc = "gather"
    /\ run_error = ""

NextAnalyze ==
    \/ \E i \in 1..Len(tpc) : Acquire(i)
    \/ \E i \in 1..Len(tpc) : _analyze_single_post(i)
    \/ AnalyzeReturns

SpecAnalyze == InitAnalyze /\ [][NextAnalyze]_vars

\* The downloads and the model calls are answered or fail, and a task that
\* can take the semaphore takes it.
FairSpecAnalyze == InitAnalyze /\ [][NextAnalyze]_vars /\ WF_vars(NextAnalyze)

(***************************************************************************)
(* The model calls outside the critique-retry loop: a run of               *)
(* aggregate_analyses or a run of design_prompt                            *)
(***************************************************************************)

InitCalls == InitAggregate \/ InitDesign

SpecCalls == InitCalls /\ [][NextAggregate \/ NextLayout]_vars

(***************************************************************************)
(* Claims on Stage 4 (checked under Spec)                                  *)
(***************************************************************************)

TurnsOf(v) == {k \in 1..Len(turns) : turns[k].view = v}

ScoreSum(c) == c[1] + c[2] + c[3] + c[4]

\* average >= 3.5, stated on the four scores: 2 * sum >= 7 * 4
MeetsThreshold(c) == c # <<>> /\ 2 * ScoreSum(c) >= 28

HasImage(a) == a.image_base64 # ""

\* C1: a viewpoint never gets more than 2 generation turns; the attempt list a
\* call returns has at most 2 entries, total_attempts is its length and the
\* attempts are numbered 1..n in order.
C1_AtMostTwoAttempts ==
    \A v \in Views :
        /\ Cardinality(TurnsOf(v)) <= 2
        /\ Len(attempts[v]) <= 2
        /\ Len(result[v].attempts) <= 2
        /\ result[v].total_attempts = Len(result[v].attempts)
        /\ \A i \in 1..Len(result[v].attempts) :
              result[v].attempts[i].attempt_number = i
        /\ vpc[v] = "returned" => result[v].attempts = attempts[v]

C1_Witness ==
    \E v \in Views : vpc[v] = "returned" /\ result[v].total_attempts = 2

\* C2: in dual-view mode every turn goes to the one chat session, every forward
\* turn is sent and answered before the first backward turn is sent, and no two
\* turns are in flight together.
C2_ForwardBeforeBackward ==
    /\ chat <= 1
    /\ \A k \in 1..Len(turns) : turns[k].session = 1
    /\ \A j \in 1..Len(turns) :
          turns[j].view = "backward" =>
              /\ vpc["forward"] = "returned"
              /\ \A i \in 1..(j - 1) : turns[i].answered
              /\ \A i \in (j + 1)..Len(turns) : turns[i].view = "backward"
    /\ \A i \in 1..Len(turns) : ~turns[i].answered => i = Len(turns)

C2_Witness ==
    /\ has_backward_prompt
    /\ pc = "done"
    /\ Cardinality(TurnsOf("forward")) = 2
    /\ Cardinality(TurnsOf("backward")) = 2

\* C3: an attempt whose critique averages >= 3.5 ends the loop of its viewpoint:
\* it is the last attempt, no later turn is sent for the viewpoint, and its image
\* and critique are the final result.
C3_AcceptStopsLoop ==
    \A v \in Views : \A i \in 1..Len(attempts[v]) :
        MeetsThreshold(attempts[v][i].critique) =>
            /\ vpc[v] = "returned"
            /\ i = Len(attempts[v])
            /\ \A k \in TurnsOf(v) : turns[k].attempt_number <= i
            /\ result[v].final_image_base64 = attempts[v][i].image_base64
            /\ result[v].final_critique = attempts[v][i].critique

C3_Witness ==
    \E v \in Views :
        /\ Len(attempts[v]) = 1
        /\ MeetsThreshold(attempts[v][1].critique)
        /\ vpc[v] = "returned"

\* C4: an attempt that has an image and whose critique call failed (critique is
\* None) ends the loop of its viewpoint, whatever its number: no turn follows it.
C4_FailedCritiqueStopsLoop ==
    \A v \in Views : \A i \in 1..Len(attempts[v]) :
        (HasImage(attempts[v][i]) /\ attempts[v][i].critique = <<>>) =>
            /\ vpc[v] = "returned"
            /\ i = Len(attempts[v])
            /\ \A k \in TurnsOf(v) : turns[k].attempt_number <= i

C4_Witness ==
    \E v \in Views :
        /\ Len(attempts[v]) = 1
        /\ HasImage(attempts[v][1])
        /\ attempts[v][1].critique = <<>>
        /\ vpc[v] = "returned"

\* C5: no failure of a critique call (exception, empty answer, answer that does
\* not parse) leaves _generate_single_view or generate_dual_room_images as an
\* exception.
C5_CritiqueFailureNeverAborts ==
    /\ \A v \in Views : vpc[v] # "raised"
    /\ error # "ValidationError"

\* C6: when attempt 1 returns no image, the attempt recorded is number 1 without
\* image and critique, no critique call is made for it, and attempt 2 is sent
\* with the generic fallback message and nothing else.
C6_FailedFirstGeneration ==
    \A v \in Views :
        (Len(attempts[v]) >= 1 /\ ~HasImage(attempts[v][1])) =>
            /\ attempts[v][1].attempt_number = 1
            /\ attempts[v][1].critique = <<>>
            /\ \A c \in 1..Len(critique_calls) :
                  critique_calls[c] # [view |-> v, attempt_number |-> 1]
            /\ attempt_num[v] = 2
            /\ vpc[v] \in {"returned", "raised"} =>
                  \E k \in TurnsOf(v) : turns[k].attempt_number = 2
            /\ \A k \in TurnsOf(v) :
                  turns[k].attempt_number = 2 =>
                      /\ turns[k].text = <<"needs_improvement">>
                      /\ turns[k].images = 0

C6_Witness ==
    \E v \in Views :
        /\ Len(attempts[v]) = 2
        /\ ~HasImage(attempts[v][1])
        /\ HasImage(attempts[v][2])
        /\ attempts[v][2].prompt_used = <<"needs_improvement">>

\* The best attempt by the stated rule, from candidate b over atts[i..]: a later
\* attempt replaces b only if it has a critique and b has none or a strictly
\* lower average.
RECURSIVE BestByRule(_, _, _)
BestByRule(atts, i, b) ==
    IF i > Len(atts) THEN b
    ELSE LET a == atts[i]
             replaces == /\ a.critique # <<>>
                         /\ \/ b.critique = <<>>
                            \/ ScoreSum(a.critique) > ScoreSum(b.critique)
         IN  BestByRule(atts, i + 1, IF replaces THEN a ELSE b)

\* C7 as stated: the result is the best attempt by the rule with the first
\* attempt as the first candidate, plus the full history.
C7_BestAttemptFirstAlwaysCandidate ==
    \A v \in Views :
        vpc[v] = "returned" =>
            LET b == BestByRule(attempts[v], 2, attempts[v][1])
            IN  /\ result[v].final_image_base64 = b.image_base64
                /\ result[v].final_critique = b.critique
                /\ result[v].attempts = attempts[v]

\* C7 amended: the first candidate is the first attempt that produced an image
\* (attempts without image are never candidates; with no image at all the result
\* has no image and no critique); later attempts replace it by the rule; a
\* critiqued attempt is always preferred to an uncritiqued one.
C7_BestAttemptAmongImages ==
    \A v \in Views :
        vpc[v] = "returned" =>
            LET cands == SelectSeq(attempts[v], HasImage)
            IN  /\ result[v].attempts = attempts[v]
                /\ IF cands = <<>>
                   THEN /\ result[v].final_image_base64 = ""
                        /\ result[v].final_critique = <<>>
                   ELSE LET b == BestByRule(cands, 2, cands[1])
                        IN  /\ result[v].final_image_base64 = b.image_base64
                            /\ result[v].final_critique = b.critique
                /\ (\E i \in 1..Len(attempts[v]) : attempts[v][i].critique # <<>>)
                      => result[v].final_critique # <<>>

C7_Witness ==
    \E v \in Views :
        /\ vpc[v] = "returned"
        /\ Len(attempts[v]) = 2
        /\ attempts[v][1].critique # <<>>
        /\ attempts[v][2].critique # <<>>
        /\ attempts[v][1].critique # attempts[v][2].critique
        /\ ScoreSum(attempts[v][1].critique) = ScoreSum(attempts[v][2].critique)
        /\ result[v].final_image_base64 = attempts[v][1].image_base64

C9_DualListsPartitionKeyObjects ==
    (lpc = "designed" /\ dual_view) =>
        /\ Range(forward_objects) \cap Range(backward_objects) = {}
        /\ Range(forward_objects) \cup Range(backward_objects) = Range(key_objects)

CeilHalf(n) == IF (n + 1) \div 2 < 1 THEN 1 ELSE (n + 1) \div 2

FloorHalf(n) == IF n \div 2 < 1 THEN 1 ELSE n \div 2

ExactlyOneEmpty == (llm_forward = <<>>) # (llm_backward = <<>>)

NonEmptyList == IF llm_forward = <<>> THEN llm_backward ELSE llm_forward

\* C10 as stated: with exactly one list empty, the first ceil(n/2) entries
\* (at least 1) of the other list are moved to the empty list and the rest stay.
C10_FirstHalfRoundedUpMoves ==
    (lpc = "designed" /\ dual_view /\ ExactlyOneEmpty) =>
        LET n == Len(NonEmptyList)
            moved == SubSeq(NonEmptyList, 1, CeilHalf(n))
            stay == SubSeq(NonEmptyList, CeilHalf(n) + 1, n)
        IN  IF llm_forward = <<>>
            THEN forward_objects = moved /\ backward_objects = stay
            ELSE backward_objects = moved /\ forward_objects = stay

\* C10 amended: with exactly one list empty, forward gets the first
\* max(1, floor(n/2)) entries of the non-empty list and backward the rest,
\* whichever list was empty; 6 backward objects give 3 and 3.
C10_FirstHalfRoundedDownForward ==
    (lpc = "designed" /\ dual_view /\ ExactlyOneEmpty) =>
        LET n == Len(NonEmptyList)
        IN  /\ forward_objects = SubSeq(NonEmptyList, 1, FloorHalf(n))
            /\ backward_objects = SubSeq(NonEmptyList, FloorHalf(n) + 1, n)
            /\ (llm_forward = <<>> /\ llm_backward = SixObjects) =>
                  /\ forward_objects = <<"guitar", "plant", "cat">>
                  /\ backward_objects = <<"lamp", "desk", "rug">>

C10_Witness ==
    /\ lpc = "designed"
    /\ dual_view
    /\ llm_backward = <<>>
    /\ Len(llm_forward) = 3
    /\ Len(forward_objects) = 1
    /\ Len(backward_objects) = 2

\* C11: in dual-view mode, when the layout call returned both lists empty,
\* forward_objects holds the key objects of rank 1, 3, 5, ... and
\* backward_objects those of rank 2, 4, 6, ..., each in rank order.
C11_BothEmptyAlternatingSplit ==
    (lpc = "designed" /\ dual_view /\ llm_forward = <<>> /\ llm_backward = <<>>) =>
        LET n == Len(key_objects)
        IN  /\ Len(forward_objects) = (n + 1) \div 2
            /\ Len(backward_objects) = n \div 2
            /\ \A i \in 1..Len(forward_objects) : forward_objects[i] = key_objects[2 * i - 1]
            /\ \A i \in 1..Len(backward_objects) : backward_objects[i] = key_objects[2 * i]

C11_Witness ==
    /\ lpc = "designed"
    /\ dual_view
    /\ llm_forward = <<>>
    /\ llm_backward = <<>>
    /\ Len(key_objects) = 3
    /\ forward_objects = <<key_objects[1], key_objects[3]>>
    /\ backward_objects = <<key_objects[2]>>

\* C12: in dual-view mode with at least two key objects, whatever the layout
\* call returned, forward_objects and backward_objects are both non-empty.
C12_BothViewsGetObjects ==
    (lpc = "designed" /\ dual_view /\ Len(key_objects) >= 2) =>
        /\ forward_objects # <<>>
        /\ backward_objects # <<>>

(***************************************************************************)
(* Claims on Stage 2 (checked under SpecAggregate and SpecScore)           *)
(***************************************************************************)

DedupReturned == agg_pc \in {"persona_call", "returned"}

\* C13: for every set of raw names and every parsed dedup response, the
\* mapping has an entry for every input name and maps the canonical name of
\* every group to itself.
C13_MappingTotalCanonicalFixed ==
    DedupReturned =>
        /\ _collect_object_names(analyses) \subseteq DOMAIN dedup_map
        /\ \A k \in 1..Len(dedup_response) :
              /\ dedup_response[k].canonical \in DOMAIN dedup_map
              /\ dedup_map[dedup_response[k].canonical] = dedup_response[k].canonical

\* C14: aggregate_analyses never raises because the dedup call or the persona
\* call failed.
C14_AggregateNeverRaises == agg_pc # "raised"

\* C15: every ScoredObject returned by _score_objects has importance within
\* [0, 1] (0 to 10000 ten-thousandths), whatever the like counts and emotional
\* weights.
C15_ImportanceWithinUnitInterval ==
    agg_pc = "scored" =>
        \A i \in 1..Len(scored_objects) :
            /\ scored_objects[i].importance >= 0
            /\ scored_objects[i].importance <= 10000

\* The canonical names the analyses hold under the mapping.
CanonicalNames ==
    {IF n \in DOMAIN dedup_map THEN dedup_map[n] ELSE n : n \in _collect_object_names(analyses)}

KeptNames == {scored_objects[i].name : i \in 1..Len(scored_objects)}

\* C16: the returned list has at most 8 entries with pairwise distinct names,
\* is ordered by non-increasing importance, and no canonical object left out
\* has a strictly higher importance than one that was kept.
C16_TopEightRanked ==
    agg_pc = "scored" =>
        /\ Len(scored_objects) <= 8
        /\ \A i, j \in 1..Len(scored_objects) :
              i < j => /\ scored_objects[i].name # scored_objects[j].name
                       /\ scored_objects[i].importance >= scored_objects[j].importance
        /\ KeptNames \subseteq CanonicalNames
        /\ LET all == Scored(analyses, dedup_map, round_up)
           IN  \A k \in 1..Len(all) :
                  IF all[k].name \in KeptNames
                  THEN \E i \in 1..Len(scored_objects) : scored_objects[i] = all[k]
                  ELSE /\ Len(scored_objects) = 8
                       /\ \A i \in 1..Len(scored_objects) :
                             all[k].importance <= scored_objects[i].importance

C16_Witness ==
    /\ agg_pc = "scored"
    /\ Len(scored_objects) = 8
    /\ CanonicalNames \ KeptNames # {}
    /\ scored_objects[1].importance > scored_objects[8].importance
    /\ scored_objects # Take(Scored(analyses, dedup_map, round_up), 8)

(***************************************************************************)
(* Claims on the reference images (checked under SpecRefs)                 *)
(***************************************************************************)

\* The key objects of the viewpoint that have a source image.
VisibleWithUrl ==
    {k \in 1..Len(ref_objects) :
        /\ ref_objects[k].source_image_url # ""
        /\ \E i \in 1..Len(visible_names) :
              lower(visible_names[i]) = lower(ref_objects[k].name)}

LeadingName(p) ==
    LET colon == IF \E i \in 1..Len(p) : p[i] = ":"
                 THEN CHOOSE i \in 1..Len(p) : p[i] = ":" /\ \A j \in 1..(i - 1) : p[j] # ":"
                 ELSE Len(p) + 1
        solid == {i \in 1..(colon - 1) : p[i] # " "}
    IN  IF solid = {} THEN <<>>
        ELSE SubSeq(p, CHOOSE i \in solid : \A j \in solid : i <= j,
                       CHOOSE i \in solid : \A j \in solid : j <= i)

EqualIgnoringCase(a, b) ==
    Len(a) = Len(b) /\ \A i \in 1..Len(a) : lower(a[i]) = lower(b[i])

\* The words of a text, in lower case: its maximal runs without a blank, an
\* underscore or a hyphen.
WordsOf(s) ==
    LET Sep(i) == i < 1 \/ i > Len(s) \/ s[i] \in {" ", "_", "-"}
    IN  {[k \in 1..(j - i + 1) |-> lower(s[i + k - 1])] :
            <<i, j>> \in {r \in (1..Len(s)) \X (1..Len(s)) :
                            /\ r[1] <= r[2]
                            /\ \A k \in r[1]..r[2] : ~Sep(k)
                            /\ Sep(r[1] - 1)
                            /\ Sep(r[2] + 1)}}

MatchesByRule(p, name) ==
    LET common == WordsOf(LeadingName(p)) \cap WordsOf(name)
        shorter == IF Cardinality(WordsOf(LeadingName(p))) < Cardinality(WordsOf(name))
                   THEN WordsOf(LeadingName(p)) ELSE WordsOf(name)
    IN  \/ EqualIgnoringCase(LeadingName(p), name)
        \/ 2 * Cardinality(common) > Cardinality(shorter)

\* C18: a placement entry is kept for a viewpoint iff, for some object name of
\* the viewpoint, its leading name equals the name ignoring case or more than
\* half of the words of the shorter word set are common to both; "guitar"
\* accepts "guitar: near the window", "cat" rejects "catalog: tall bookshelf".
C18_PlacementSelectedIffMatch ==
    mpc = "filtered" =>
        /\ \A n \in 1..Len(all_placements) :
              (\E m \in 1..Len(object_placements) : object_placements[m] = all_placements[n])
                  <=> \E k \in 1..Len(object_names) :
                         MatchesByRule(all_placements[n], object_names[k])
        /\ (all_placements = <<GuitarNearTheWindow>> /\ object_names = <<(<<"guitar">>)>>)
              => object_placements = <<GuitarNearTheWindow>>
        /\ (all_placements = <<CatalogTallBookshelf>> /\ object_names = <<(<<"cat">>)>>)
              => object_placements = <<>>

C18_Witness ==
    /\ mpc = "filtered"
    /\ all_placements = <<(<<" ", "Cat", ":">>)>>
    /\ object_names = <<(<<"alog">>), (<<"cat", "_">>)>>
    /\ object_placements = all_placements

(***************************************************************************)
(* Claims on Stage 5 (checked under SpecScene)                             *)
(***************************************************************************)

\* C19: whenever an exception was raised inside Stage 5 (missing World Labs
\* key, upload or HTTP error, invalid response body, service-reported error,
\* polling timeout, no splat url), run_pipeline has not raised: it has
\* returned the Stage 4 result and the profile as they were, with the scene
\* result None.
C19_Stage5FailureNeverFailsRun ==
    stage5_error # NoError =>
        /\ ppc = "returned"
        /\ scene_result = <<>>
        /\ returned = <<[result |-> final_image,
                         profile |-> profile,
                         scene_result |-> <<>>]>>

\* A response body that does not validate ended the conversion with an
\* exception that is not a WorldLabsError, and the run returned.
C19_Witness ==
    /\ stage5_error.type = "ValidationError"
    /\ "operations" \in called
    /\ ppc = "returned"
    /\ returned # <<>>

\* The last poll answered done = true together with an error payload.
DoneWithError == status # <<>> /\ status[1].done /\ status[1].error # <<>>

\* C20: once a poll has answered done = true with an error payload,
\* convert_to_3d_scene has failed with a WorldLabsError whose message holds
\* the code and the message of the payload, and no request for the world
\* record has been sent.
C20_ServiceErrorBecomesWorldLabsError ==
    DoneWithError =>
        /\ cpc = "raised"
        /\ convert_error =
             WorldLabsError(<<"World generation failed: ", status[1].error[1].code,
                              " - ", status[1].error[1].message>>)
        /\ "worlds" \notin called

\* The error payload arrived on a later poll, together with a response payload.
C20_Witness ==
    /\ DoneWithError
    /\ status[1].response # <<>>
    /\ status[1].error[1].code = "INTERNAL"
    /\ now > POLL_INTERVAL_SECONDS
    /\ convert_error.type = "WorldLabsError"

\* What convert_to_3d_scene raises for the error payloads of a completed
\* operation.
ServiceFailureOutcomes ==
    { WrapError(GenerationFailed(st.error[1])) :
        st \in {s \in OperationStatuses : s.error # <<>>} }

\* C21: when polling gave up at the deadline, convert_to_3d_scene has failed
\* with an error that differs from every error it raises for a completed
\* operation with an error payload, so the caller can tell the two apart.
C21_TimeoutDistinctFromServiceFailure ==
    convert_cause.type = "TimeoutError" =>
        /\ cpc = "raised"
        /\ convert_error # NoError
        /\ convert_error \notin ServiceFailureOutcomes

\* The last poll, answered at or after the deadline, was not done although it
\* carried an error payload.
C21_Witness ==
    /\ convert_cause = PollTimedOut
    /\ now >= deadline
    /\ status # <<>> /\ ~status[1].done /\ status[1].error # <<>>
    /\ convert_error.type = "WorldLabsError"

\* The order of the requests of a conversion.
ConversionOrder ==
    /\ cpc = "uploading" => called \subseteq {"prepare_upload", "put"}
    /\ "generate" \in called =>
          \A j \in 1..Len(upload) :
              upload[j].pc = "done" /\ upload[j].media_asset_id # ""
    /\ "operations" \in called => "generate" \in called /\ submitted # <<>>
    /\ cpc = "submitted" => "operations" \notin called
    /\ "worlds" \in called =>
          /\ "operations" \in called
          /\ status # <<>> /\ status[1].done
          /\ status[1].error = <<>> /\ status[1].response # <<>>

\* Polling goes on only while no poll was answered done and no answer came at
\* or after the deadline; a poll is sent less than one interval after it.
PollingStops ==
    /\ cpc \in {"polling", "sleeping"} =>
          /\ status = <<>> \/ ~status[1].done
          /\ "worlds" \notin called
          /\ now < deadline + POLL_INTERVAL_SECONDS
    /\ cpc = "sleeping" => now < deadline

\* A poll follows the submission or a sleep of 5 seconds after the answer to
\* the poll before it.
PollingRepeats ==
    /\ (cpc # "polling" /\ cpc' = "polling") => cpc \in {"submitted", "sleeping"}
    /\ (cpc = "sleeping" /\ cpc' = "polling") =>
          now' = now + POLL_INTERVAL_SECONDS /\ POLL_INTERVAL_SECONDS = 5
    /\ cpc = "submitted" /\ cpc' = "polling" =>
          deadline' = now' + POLL_TIMEOUT_SECONDS /\ POLL_TIMEOUT_SECONDS = 600

Succeeded == cpc = "returned" /\ convert_error = NoError

TimedOut == cpc = "raised" /\ convert_cause.type = "TimeoutError"

Failed == cpc = "raised" /\ convert_error # NoError /\ convert_cause.type # "TimeoutError"

\* C22: a conversion sends its requests in the order upload, submission,
\* polls, world fetch (no submission unless every upload succeeded, no poll
\* before the submission was accepted, no world fetch unless a poll was
\* answered done without error); polls are 5 seconds after the answer before
\* them and stop at the first done answer or at the first answer at or after
\* the deadline of 600 seconds; and every conversion ends as exactly one of
\* Succeeded, Failed and TimedOut.
C22_ConversionOrderAndTermination ==
    /\ [](ConversionOrder /\ PollingStops)
    /\ [][PollingRepeats]_vars
    /\ (cpc = "uploading") ~> (Succeeded \/ Failed \/ TimedOut)
    /\ []((cpc \in {"returned", "raised"}) =>
            /\ Succeeded \/ Failed \/ TimedOut
            /\ ~(Succeeded /\ Failed) /\ ~(Succeeded /\ TimedOut) /\ ~(Failed /\ TimedOut))

\* A poll sent after the deadline was answered done, and the conversion
\* succeeded.
C22_Witness ==
    /\ Succeeded
    /\ now > deadline
    /\ "worlds" \in called
    /\ scene_result # <<>>

\* The splat urls of a World in the order of preference, "" for an absent one.
SplatUrlsByPreference(w) ==
    IF w.assets # <<>> /\ w.assets[1].spz_urls # <<>>
    THEN << w.assets[1].spz_urls[1].full_res,
            w.assets[1].spz_urls[1].splat_500k,
            w.assets[1].spz_urls[1].splat_100k >>
    ELSE << "", "", "" >>

\* A secondary url of a World, "" (None) when the assets or the url are absent.
Secondary(w, field) == IF w.assets # <<>> THEN w.assets[1][field] ELSE ""

\* C23: for the World of a successful operation, the result holds the first
\* present splat url in the order full resolution, 500k, 100k; when no splat
\* url is present the conversion fails with WorldLabsError and returns no
\* result; an absent collider mesh, panorama or thumbnail is None in the
\* result and never makes the conversion fail.
C23_SplatPreferenceAndOptionalAssets ==
    fetched_world # <<>> =>
        LET w == fetched_world[1]
            urls == SplatUrlsByPreference(w)
        IN  IF \A k \in 1..3 : urls[k] = ""
            THEN /\ cpc = "raised"
                 /\ convert_error.type = "WorldLabsError"
                 /\ scene_result = <<>>
            ELSE /\ cpc = "returned"
                 /\ convert_error = NoError
                 /\ scene_result # <<>>
                 /\ \E k \in 1..3 :
                        /\ urls[k] # ""
                        /\ \A j \in 1..(k - 1) : urls[j] = ""
                        /\ scene_result[1].viewer_data.splat_url = urls[k]
                 /\ scene_result[1].viewer_data.collider_url = Secondary(w, "collider_mesh_url")
                 /\ scene_result[1].viewer_data.panorama_url = Secondary(w, "pano_url")
                 /\ scene_result[1].thumbnail_url = Secondary(w, "thumbnail_url")

\* The World has the 500k and the 100k splat but no full resolution one, and
\* neither collider mesh nor panorama nor thumbnail.
C23_Witness ==
    /\ fetched_world # <<>>
    /\ SplatUrlsByPreference(fetched_world[1]) = <<"", "500k.spz", "100k.spz">>
    /\ Secondary(fetched_world[1], "collider_mesh_url") = ""
    /\ Secondary(fetched_world[1], "pano_url") = ""
    /\ scene_result # <<>>
    /\ scene_result[1].viewer_data.splat_url = "500k.spz"
    /\ scene_result[1].thumbnail_url = ""

\* The asset the upload of image_bytes was given.
AssetOf(image_bytes) ==
    LET j == CHOOSE j \in 1..Len(upload) : upload[j].image_bytes = image_bytes
    IN  upload[j].media_asset_id

DualImageMode == request # <<>> /\ Len(request[1].image_bytes_list) >= 2

\* C24: in dual-image mode both uploads are started before either is
\* answered, and the submitted request holds the asset of the forward image
\* with azimuth 0 and the asset of the backward image with azimuth 180,
\* whichever upload finished first; in single-image mode the request refers
\* to the one uploaded asset.
C24_AzimuthFollowsImageNotCompletion ==
    /\ (DualImageMode /\ cpc = "uploading") =>
          /\ Len(upload) = 2
          /\ upload[1].image_bytes = b64decode(final_image.forward)
          /\ upload[2].image_bytes = b64decode(final_image.backward)
    /\ (DualImageMode /\ submitted # <<>>) =>
          /\ submitted[1].type = "multi-image"
          /\ submitted[1].image_prompt = <<>>
          /\ submitted[1].multi_image_prompt =
                << MultiImagePromptItem(0, AssetOf(b64decode(final_image.forward))),
                   MultiImagePromptItem(180, AssetOf(b64decode(final_image.backward))) >>
          /\ AssetOf(b64decode(final_image.forward)) # AssetOf(b64decode(final_image.backward))
    /\ (~DualImageMode /\ submitted # <<>>) =>
          /\ Len(upload) = 1
          /\ submitted[1].type = "image"
          /\ submitted[1].multi_image_prompt = <<>>
          /\ submitted[1].image_prompt = <<upload[1].media_asset_id>>
          /\ upload[1].media_asset_id # ""

\* The upload of the backward image finished first and the request was
\* submitted.
C24_Witness ==
    /\ DualImageMode
    /\ submitted # <<>>
    /\ upload[2].finished = 1
    /\ upload[1].finished = 2
    /\ submitted[1].multi_image_prompt[1].media_asset_id = upload[1].media_asset_id

(***************************************************************************)
(* Claims on Stage 1 (checked under SpecAnalyze and FairSpecAnalyze)       *)
(***************************************************************************)

\* The posts whose analysis succeeded, by their 0-based index.
SucceededPosts == {i - 1 : i \in {j \in 1..Len(tpc) : tpc[j] = "ok"}}

\* C25: when analyze_posts has returned, every task has run to its end
\* whatever the other tasks did, the analyses are those of the posts that
\* succeeded, once each and in post order; run_pipeline has gone on to
\* Stage 2 iff there is at least one, and otherwise it has raised ValueError
\* and nothing of Stage 2 was called.
C25_PartialSuccessGate ==
    apc # "gather" =>
        /\ \A i \in 1..Len(tpc) : tpc[i] \in {"ok", "none", "exception"}
        /\ (apc = "stage2") = (SucceededPosts # {})
        /\ apc = "stage2" =>
              /\ {analyses[k].post_index : k \in 1..Len(analyses)} = SucceededPosts
              /\ Len(analyses) = Cardinality(SucceededPosts)
              /\ \A k \in 1..(Len(analyses) - 1) :
                     analyses[k].post_index < analyses[k + 1].post_index
              /\ agg_pc = "start"
              /\ run_error = ""
        /\ apc # "stage2" =>
              /\ apc = "raised"
              /\ run_error = "ValueError"
              /\ analyses = <<>>
              /\ agg_pc = "idle"
              /\ agg_calls = <<>>

\* One post raised, one was skipped and two later ones succeeded.
C25_Witness ==
    /\ apc = "stage2"
    /\ \E i, j \in 1..Len(tpc) : i < j /\ tpc[i] = "exception" /\ tpc[j] = "none"
    /\ Len(analyses) = 2
    /\ tpc[1] # "ok"

AllTasksDone == \A i \in 1..Len(tpc) : tpc[i] \in {"ok", "none", "exception"}

\* C26: at every moment at most 5 per-post analyses hold the semaphore (they
\* wait for their downloads or for the model), and every post's task
\* eventually takes the semaphore and runs to its end, after which
\* analyze_posts returns.
C26_BoundedParallelismNoStarvation ==
    /\ [](Cardinality(InFlight) <= 5 /\ sem_value >= 0)
    /\ <>(AllTasksDone /\ apc # "gather")

\* Five analyses are in flight and a sixth post waits for the semaphore.
C26_Witness ==
    /\ Cardinality(InFlight) = 5
    /\ \E i \in 1..Len(tpc) : tpc[i] = "waiting"

\* C27: a missing model API key is fatal at its first use and reaches the
\* caller of run_pipeline unchanged: once a task has called
\* get_gemini_client() without GOOGLE_API_KEY and analyze_posts is over,
\* run_pipeline has raised the RuntimeError of get_gemini_client.
C27_MissingCredentialReachesCaller ==
    (/\ apc # "gather"
     /\ ~gemini_key
     /\ \E i \in 1..Len(tpc) : tpc[i] = "exception")
        => (apc = "raised" /\ run_error = "RuntimeError")

(***************************************************************************)
(* Claims on run_pipeline                                                  *)
(***************************************************************************)

\* C28: whenever run_pipeline returns, the result it returns carries a
\* non-empty final image for the forward or for the backward view, together
\* with the profile.
C28_ReturnCarriesUsableResult ==
    ppc = "returned" =>
        /\ returned # <<>>
        /\ returned[1].profile = profile
        /\ \E v \in Views : returned[1].result[v] # ""

(***************************************************************************)
(* Claims on single-view mode                                              *)
(***************************************************************************)

\* C29: when backward_prompt is None only the forward sequence executes: no
\* reference image is downloaded, no message is sent and no critique is
\* asked for the backward view, _generate_single_view is never entered for
\* it, and the backward result returned is the empty ImageGenResult (no
\* image, no critique, no attempts, total_attempts 0).
C29_SingleViewRunsForwardOnly ==
    ~has_backward_prompt =>
        /\ ref_images["backward"] = 0
        /\ \A k \in 1..Len(turns) : turns[k].view = "forward"
        /\ \A k \in 1..Len(critique_calls) : critique_calls[k].view = "forward"
        /\ vpc["backward"] = "idle" /\ vchat["backward"] = 0
        /\ pc # "backward"
        /\ attempts["backward"] = <<>>
        /\ result["backward"] = ImageGenResult("", None, <<>>, 0)
        /\ pc = "done" => vpc["forward"] = "returned"

\* A single-view run has returned a critiqued forward image after two turns.
C29_Witness ==
    /\ ~has_backward_prompt
    /\ pc = "done"
    /\ result["forward"].final_image_base64 # ""
    /\ result["forward"].total_attempts = 2
    /\ ref_images["forward"] > 0
    /\ Len(critique_calls) >= 1

(***************************************************************************)
(* Claims on generate_3d_prompt                                            *)
(***************************************************************************)

\* The positions of a text that hold something else than a blank.
NonBlank(t) == {i \in 1..Len(t) : t[i] # " "}

\* The text between its first and its last non-blank symbol.
Trimmed(t) ==
    LET first == CHOOSE i \in NonBlank(t) : \A j \in NonBlank(t) : i <= j
        last  == CHOOSE i \in NonBlank(t) : \A j \in NonBlank(t) : j <= i
    IN  SubSeq(t, first, last)

\* C30: generate_3d_prompt never raises: once the model call has ended,
\* whatever its outcome, run_pipeline has gone on without an error, and the
\* spatial prompt is the model text without its leading and trailing blanks
\* when the text has a non-blank symbol, and the fixed default prompt in
\* every other case (exception, no text, empty text, blank text).
C30_SpatialPromptNeverRaises ==
    ppc # "prompt_call" =>
        /\ ppc = "returned"
        /\ stage5_error = NoError
        /\ returned # <<>>
        /\ text_prompt_3d =
              (IF prompt_response.kind = "text" /\ NonBlank(prompt_response.text) # {}
               THEN Trimmed(prompt_response.text)
               ELSE DEFAULT_TEXT_PROMPT)

\* The model answered a text with blanks on both sides and a blank inside,
\* and the prompt is the text without the outer blanks.
C30_Witness ==
    /\ ppc = "returned"
    /\ prompt_response = [kind |-> "text", text |-> <<" ", "room", " ", "window">>]
    /\ text_prompt_3d = <<"room", " ", "window">>

(***************************************************************************)
(* Claims on the model calls outside the critique-retry loop               *)
(***************************************************************************)

\* The calls design_prompt issues when no call fails.
DesignCallPlan(dual) ==
    << <<"layout", "">> >>
        \o (IF dual THEN << <<"describe", "forward">>, <<"describe", "backward">> >>
            ELSE << <<"describe", "forward">> >>)
        \o (IF dual THEN << <<"assemble", "forward">>, <<"assemble", "backward">> >>
            ELSE << <<"assemble", "forward">> >>)

\* C31: no model call of design_prompt or aggregate_analyses is issued a
\* second time: the calls of design_prompt are a prefix of 1 layout call, one
\* object-detail call per viewpoint and one assembly call per viewpoint, no
\* call twice, and all of them (5 in dual-view mode, 3 in single-view mode)
\* when design_prompt returns; aggregate_analyses issues at most one dedup
\* call and at most one persona call, the dedup call first.
C31_NoCallReissued ==
    /\ Len(design_calls) <= Len(DesignCallPlan(dual_view))
    /\ design_calls = SubSeq(DesignCallPlan(dual_view), 1, Len(design_calls))
    /\ lpc = "returned" => Len(design_calls) = (IF dual_view THEN 5 ELSE 3)
    /\ lpc = "raised" => Len(design_calls) \in {1, (Len(DesignCallPlan(dual_view)) + 1) \div 2,
                                                 Len(DesignCallPlan(dual_view))}
    /\ Cardinality({k \in 1..Len(agg_calls) : agg_calls[k] = "dedup"}) <= 1
    /\ Cardinality({k \in 1..Len(agg_calls) : agg_calls[k] = "persona"}) <= 1
    /\ Len(agg_calls) <= 2
    /\ agg_pc = "raised" => agg_calls \in {<<"dedup">>, <<"persona">>, <<"dedup", "persona">>}
    /\ agg_pc = "returned" => agg_calls \in {<<"persona">>, <<"dedup", "persona">>}

\* design_prompt has returned in single-view mode after 3 calls.
C31_Witness ==
    /\ lpc = "returned"
    /\ ~dual_view
    /\ Len(design_calls) = 3
    /\ forward_objects # <<>>

(***************************************************************************)
(* Claims on Stage 5 as a whole                                            *)
(***************************************************************************)

\* C32: convert_to_3d_scene is called at most once per run (the request it
\* was called with is never replaced), and only when run_3d_conversion is
\* set and a viewpoint has a final image; without run_3d_conversion nothing
\* of the conversion happens and the scene result returned is None; a scene
\* result exists only when the conversion returned, and is then the result
\* built from the world it fetched.
C32_ConversionAtMostOnceWhenRequested ==
    /\ [](/\ request # <<>> => (run_3d_conversion /\ has_any_image /\ worldlabs_key)
          /\ ~run_3d_conversion =>
                /\ cpc = "idle" /\ called = {} /\ upload = <<>>
                /\ scene_result = <<>>
                /\ ppc = "returned" => returned[1].scene_result = <<>>
          /\ scene_result # <<>> =>
                /\ cpc = "returned" /\ request # <<>>
                /\ stage5_error = NoError
                /\ scene_result = <<_build_result(fetched_world[1])>>
                /\ returned = <<[result |-> final_image, profile |-> profile,
                                 scene_result |-> scene_result]>>
          /\ (cpc = "returned") = (scene_result # <<>>))
    /\ [][/\ request # <<>> => request' = request
          /\ cpc # "idle" => cpc' # "idle"
          /\ cpc \notin {"idle", "uploading"} => cpc' # "uploading"]_vars

\* The conversion was requested and succeeded: the run returned its result.
C32_Witness ==
    /\ run_3d_conversion
    /\ ppc = "returned"
    /\ scene_result # <<>>
    /\ returned[1].scene_result = scene_result

(***************************************************************************)
(* Claims on the guitar and plant fixture                                  *)
(***************************************************************************)

\* _score_objects has scored a guitar fixture with names left as they are.
FixtureScored ==
    /\ agg_pc = "scored"
    /\ analyses \in GuitarFixtures
    /\ dedup_map = <<>>

GuitarAbovePlant ==
    \E g, q \in 1..Len(scored_objects) :
        /\ scored_objects[g].name = "guitar"
        /\ scored_objects[q].name = "plant"
        /\ g < q

\* C33 as stated: for every fixture of two guitar posts (center, background)
\* and one plant post, whatever the emotional weights, the like counts and
\* the plant's prominence, guitar is ranked above plant.
C33_GuitarAbovePlantAlways == FixtureScored => GuitarAbovePlant

\* C33 amended: guitar is ranked above plant, whatever the plant's
\* prominence, when the three posts have the same like count and the
\* emotional weight of the plant post is not above the mean of the two
\* guitar posts.
C33_GuitarAbovePlantEqualLikes ==
    (/\ FixtureScored
     /\ analyses[1].likes = analyses[2].likes /\ analyses[2].likes = analyses[3].likes
     /\ 2 * analyses[3].emotional_weight
           <= analyses[1].emotional_weight + analyses[2].emotional_weight)
        => (GuitarAbovePlant /\ Len(scored_objects) = 2)

\* A fixture with the plant at the center and equal weights and likes.
C33_Witness ==
    /\ FixtureScored
    /\ analyses[3].objects[1].prominence = "center"
    /\ \A i \in 1..3 : analyses[i].likes = -1 /\ analyses[i].emotional_weight = 5
    /\ GuitarAbovePlant

(***************************************************************************)
(* Claims on the refinement turn                                           *)
(***************************************************************************)

\* The four dimensions of a critique, in the order of its scores; the line
\* of a dimension in the message holds its feedback text.
Dimensions == <<"object_presence", "atmosphere_match", "spatial_coherence",
                "overall_quality">>

\* The dimensions whose sub-score is below 3.
WeakDimensions(critique) ==
    SelectSeq(Dimensions,
              LAMBDA d : critique[CHOOSE i \in 1..4 : Dimensions[i] = d] < 3)

\* C34: when attempt 1 of a view was critiqued and attempt 2 was sent, the
\* average of that critique was below 3.5 and the message of attempt 2 is the
\* refinement frame around one line per dimension of that critique whose
\* sub-score is below 3, in the order of the dimensions, or around the
\* generic improvement line when (and only when) there is no such dimension;
\* the turn carries this text and no reference image.
C34_RefinementListsWeakDimensions ==
    \A k \in 1..Len(turns) :
        (turns[k].attempt_number = 2
           /\ attempts[turns[k].view][1].critique # None) =>
            LET c == attempts[turns[k].view][1].critique
                listed == SubSeq(turns[k].text, 2, Len(turns[k].text) - 1)
            IN  /\ avg_score(c) < 350
                /\ turns[k].text[1] = "refine"
                /\ turns[k].text[Len(turns[k].text)] = "keep_layout"
                /\ WeakDimensions(c) # <<>> => listed = WeakDimensions(c)
                /\ (listed = <<"could_be_better">>) = (WeakDimensions(c) = <<>>)
                /\ turns[k].images = 0

\* The backward attempt 1 had reference images and one weak dimension, and
\* its attempt 2 was sent naming that dimension only.
C34_Witness ==
    \E k \in 1..Len(turns) :
        /\ turns[k].view = "backward" /\ turns[k].attempt_number = 2
        /\ ref_images["backward"] > 0
        /\ attempts["backward"][1].critique = <<2, 4, 3, 3>>
        /\ turns[k].text = <<"refine", "object_presence", "keep_layout">>

(***************************************************************************)
(* Claims on the source image of a scored object (checked under SpecScore) *)
(***************************************************************************)

Canonical(name) == IF name \in DOMAIN dedup_map THEN dedup_map[name] ELSE name

\* The prominence scores the post gives to the canonical object.
ProminencesIn(i, c) ==
    {_PROMINENCE_SCORE(analyses[i].objects[j].prominence) :
        j \in {j \in 1..Len(analyses[i].objects) : Canonical(analyses[i].objects[j].name) = c}}

\* The post shows the object at prominence p or higher.
ShowsAtLeast(i, c, p) == \E q \in ProminencesIn(i, c) : q >= p

\* C35: the source image of every scored object is the first image of a post
\* that shows the object at its highest prominence over all posts, and no
\* earlier post shows it at that prominence: a later post of equal
\* prominence does not replace the image.
C35_SourceImageOfHighestProminence ==
    agg_pc = "scored" =>
        \A k \in 1..Len(scored_objects) :
            LET c == scored_objects[k].name
            IN  \E i \in 1..Len(analyses) :
                   /\ ProminencesIn(i, c) # {}
                   /\ scored_objects[k].source_image_url = analyses[i].image_urls[1]
                   /\ \E p \in ProminencesIn(i, c) :
                         /\ \A n \in 1..Len(analyses) : ~ShowsAtLeast(n, c, p + 1)
                         /\ \A n \in 1..(i - 1) : ~ShowsAtLeast(n, c, p)

\* Both posts show the guitar at the center, and the image of the first
\* post was chosen.
C35_Witness ==
    /\ agg_pc = "scored"
    /\ Len(analyses) = 2
    /\ ProminencesIn(1, "guitar") = {10}
    /\ ProminencesIn(2, "guitar") = {10}
    /\ analyses[1].image_urls # analyses[2].image_urls
    /\ \E k \in 1..Len(scored_objects) :
          /\ scored_objects[k].name = "guitar"
          /\ scored_objects[k].source_image_url = analyses[1].image_urls[1]

(***************************************************************************)
(* Claims on the atmosphere (checked under SpecAggregate, SpecAtmosphere)  *)
(***************************************************************************)

\* C36: the step in which aggregate_analyses returns leaves the atmosphere
\* with the model's style and time of day when they are not empty and with
\* the values it had before the persona call otherwise, with the model's
\* window view whether empty or not, and with the dominant mood, dominant
\* lighting, palette and room size it had before.
C36_MergeKeepsDeterministicFields ==
    [][(agg_pc = "persona_call" /\ agg_pc' = "returned") =>
          LET before == atmosphere[1]
              after == atmosphere'[1]
              answer == vlm_response'[1]
          IN  /\ after.style = IF answer.style = "" THEN before.style ELSE answer.style
              /\ after.time_of_day = IF answer.time_of_day = "" THEN before.time_of_day
                                     ELSE answer.time_of_day
              /\ after.window_view = answer.window_view
              /\ after.dominant_mood = before.dominant_mood
              /\ after.dominant_lighting = before.dominant_lighting
              /\ after.color_palette = before.color_palette
              /\ after.room_size = before.room_size]_vars

\* The model answered a style and nothing else: the atmosphere has the style,
\* an empty window view, the time of day "afternoon" and the mood, lighting
\* and palette derived from two posts.
C36_Witness ==
    /\ agg_pc = "returned"
    /\ Len(scenes) = 2
    /\ vlm_response = <<[persona_summary |-> "persona", style |-> "boho",
                         window_view |-> "", time_of_day |-> ""]>>
    /\ atmosphere[1].style = "boho"
    /\ atmosphere[1].window_view = ""
    /\ atmosphere[1].time_of_day = "afternoon"
    /\ atmosphere[1].dominant_mood = "cozy"
    /\ atmosphere[1].dominant_lighting = "warm"
    /\ atmosphere[1].color_palette = <<"beige", "white">>

\* How often the scenes name the mood tag, the lighting value, the color.
MoodCount(m) ==
    Cardinality({<<k, j>> \in (1..Len(scenes)) \X (1..2) :
                    j <= Len(scenes[k].mood) /\ scenes[k].mood[j] = m})

LightingCount(l) == Cardinality({k \in 1..Len(scenes) : scenes[k].lighting = l})

ColorCount(c) ==
    Cardinality({<<k, j>> \in (1..Len(scenes)) \X (1..6) :
                    j <= Len(scenes[k].color_palette) /\ scenes[k].color_palette[j] = c})

MoodTags == UNION {Range(scenes[k].mood) : k \in 1..Len(scenes)}

LightingValues == {scenes[k].lighting : k \in 1..Len(scenes)} \ {""}

Colors == UNION {Range(scenes[k].color_palette) : k \in 1..Len(scenes)}

\* C37: the derived dominant mood is an observed mood tag that no other tag
\* outnumbers, or "warm" when no tag was observed; the dominant lighting is
\* an observed lighting value that no other value outnumbers, or "natural"
\* when none was observed; the palette holds min(5, number of observed
\* colors) pairwise distinct observed colors, never a color after a less
\* frequent one, and no color left out is more frequent than one it holds.
C37_AtmosphereHoldsMostFrequent ==
    agg_pc = "derived" =>
        LET room == atmosphere[1]
            palette == room.color_palette
        IN  /\ IF MoodTags = {} THEN room.dominant_mood = "warm"
               ELSE /\ room.dominant_mood \in MoodTags
                    /\ \A m \in MoodTags : MoodCount(m) <= MoodCount(room.dominant_mood)
            /\ IF LightingValues = {} THEN room.dominant_lighting = "natural"
               ELSE /\ room.dominant_lighting \in LightingValues
                    /\ \A l \in LightingValues :
                          LightingCount(l) <= LightingCount(room.dominant_lighting)
            /\ Len(palette) = IF Cardinality(Colors) < 5 THEN Cardinality(Colors) ELSE 5
            /\ Range(palette) \subseteq Colors
            /\ \A i, j \in 1..Len(palette) :
                  i < j => /\ palette[i] # palette[j]
                           /\ ColorCount(palette[i]) >= ColorCount(palette[j])
            /\ \A c \in Colors \ Range(palette) : \A i \in 1..Len(palette) :
                  ColorCount(c) <= ColorCount(palette[i])

\* Seven colors were observed, white twice: the palette starts with white
\* and leaves two colors out; "calm" was observed twice and "cozy" once.
C37_Witness ==
    /\ agg_pc = "derived"
    /\ Cardinality(Colors) = 7
    /\ atmosphere[1].color_palette = <<"white", "green", "blue", "red", "black">>
    /\ atmosphere[1].dominant_mood = "calm"
    /\ MoodCount("cozy") = 1
    /\ atmosphere[1].dominant_lighting = "natural"

(***************************************************************************)
(* Claims on the single view (checked under SpecLayout)                    *)
(***************************************************************************)

\* C38: in single-view mode, whatever the layout call returned, the
\* forward_objects used downstream hold every key-object name and
\* backward_objects is empty.
C38_SingleViewHoldsEveryKeyObject ==
    (lpc = "designed" /\ ~dual_view) =>
        /\ Range(key_objects) \subseteq Range(forward_objects)
        /\ backward_objects = <<>>

(***************************************************************************)
(* Claims on the final image of a viewpoint (checked under Spec)           *)
(***************************************************************************)

\* Some attempt of the viewpoint produced an image: a recorded attempt holds
\* one, or the attempt under critique does.
ProducedImage(v) ==
    \/ \E i \in 1..Len(attempts[v]) : HasImage(attempts[v][i])
    \/ vpc[v] \in {"await_critique", "raised"} /\ image_b64[v] # ""

\* C39: whatever the generation and critique outcomes were, once the loop of
\* a viewpoint has ended its final image is non-empty iff one of its attempts
\* produced an image, and the final image and the final critique of a
\* returned result are those of one attempt of the returned list.
C39_GeneratedImageNeverLost ==
    \A v \in Views :
        /\ vpc[v] \in {"returned", "raised"} =>
              ((result[v].final_image_base64 # "") <=> ProducedImage(v))
        /\ vpc[v] = "returned" =>
              \E i \in 1..Len(result[v].attempts) :
                  /\ result[v].final_image_base64 = result[v].attempts[i].image_base64
                  /\ result[v].final_critique = result[v].attempts[i].critique

(***************************************************************************)
(* Claims on the images handed to Stage 5 (checked under SpecImages)       *)
(***************************************************************************)

\* C40: the request of Stage 5 holds the two final images, and is submitted
\* as a multi-image request, iff both viewpoints have a final image; when
\* one viewpoint has a final image, forward or backward, the request holds
\* that image alone, one file is uploaded and the request submitted is a
\* single-image request; and in dual-view mode a forward viewpoint that has
\* returned, with or without an image, is followed by the backward
\* viewpoint, whose turns go to the session of the forward turns.
C40_ImagesDecideSubmitMode ==
    /\ request # <<>> =>
          /\ DualImageMode <=> has_both_images
          /\ submitted # <<>> => (submitted[1].type = "multi-image" <=> has_both_images)
          /\ ~has_both_images =>
                /\ request[1].image_bytes_list = <<>>
                /\ request[1].image_bytes =
                      b64decode(IF final_image.backward = "" THEN final_image.forward
                                ELSE final_image.backward)
                /\ request[1].image_bytes # ""
                /\ Len(upload) <= 1
                /\ submitted # <<>> => submitted[1].type = "image"
    /\ (has_backward_prompt /\ vpc["forward"] = "returned") =>
          /\ pc \in {"backward", "done", "raised"}
          /\ vpc["backward"] # "idle" =>
                /\ vchat["backward"] = vchat["forward"]
                /\ \A k \in 1..Len(turns) : turns[k].session = vchat["forward"]
          /\ pc = "done" =>
                /\ vpc["backward"] = "returned"
                /\ attempts["backward"] # <<>>
                /\ \E k \in 1..Len(turns) : turns[k].view = "backward"

\* Only the backward viewpoint has a final image, and it was submitted alone
\* as a single-image request.
C40_Witness ==
    /\ final_image.forward = ""
    /\ final_image.backward = "bwd_b64"
    /\ request # <<>>
    /\ request[1].image_bytes = "bwd_png"
    /\ Len(upload) = 1
    /\ submitted # <<>>
    /\ submitted[1].type = "image"

====
